---------------------------- MODULE Spec2Model ----------------------------
(***************************************************************************)
(* Model of the Smart-DCA allocation engine of hold-analyzer:              *)
(*   app/services/dca_calculator.py    calculate_smart_dca, PROFILE_CONFIG *)
(*   app/services/technical_analysis.py detect_boom_range, and the rsi     *)
(*                                      of calculate_technical_indicators  *)
(*   app/main.py                        analyze_multiple_symbols           *)
(*   app/services/data_fetcher.py       fetch_historical_data and the two  *)
(*                                      source fetchers                    *)
(*                                                                         *)
(* Representation.                                                         *)
(*  - Money is an integer number of mills (1/1000 of a currency unit), so  *)
(*    that a monthly_amount that is not a whole number of cents can be     *)
(*    given; round(x, 2) is Round2, round-half-to-even to a multiple of    *)
(*    CentMills.  Python's float representation error is not modelled:     *)
(*    arithmetic is exact and rounding acts on the exact value.            *)
(*  - Fractions (tiered_base, fallback_threshold, ...) are per mille.  A   *)
(*    computed allocation fraction is an exact rational [num, den].        *)
(*  - Closes are whole currency units.  A number of shares is an exact     *)
(*    rational kept as an integer numerator over ShareDen; round(x, 6) is  *)
(*    Round6 and yields micro-shares.                                      *)
(*  - An Optional / NaN value is None (<<>>) or Some(v) (<<v>>).           *)
(*  - The price series is consumed month by month: month_data is the slice *)
(*    df[month_start <= index < month_end] of the sorted series, drawn     *)
(*    when the loop reaches that month.  span is the number of calendar    *)
(*    months from the first bar's month to the last bar's month (0 for an  *)
(*    empty or missing series); the first and the last of these months     *)
(*    hold at least one bar, the months between may hold none.             *)
(*  - A bar's date is <<month, position in the month>>.                    *)
(*  - current_price is the close of the last bar of the series; it is an   *)
(*    input of the run, and the slice drawn for the last calendar month    *)
(*    ends with a bar of that close.                                       *)
(*  - The symbol and the reason texts' number formatting are left out; a   *)
(*    reason is the sequence of the fired conditions' tags.                *)
(***************************************************************************)
EXTENDS Integers, Sequences, FiniteSets, TLC

VARIABLES
    \* dca_calculator.py, calculate_smart_dca: arguments (lines 40-46)
    strategy,            \* the strategy argument (a record of Optionals)
    monthly_amount,      \* mills
    months,              \* months requested
    span,                \* calendar months spanned by df (lines 73-80);
                         \* 0: df is None or empty
    current_price,       \* df.iloc[-1]['close'] (line 90); None: no bar
    \* control
    pc,                  \* "loop" | "done"
    month_idx,           \* entries of monthly_dates consumed (line 92)
    month_data,          \* bars of the month processed last (line 98)
    \* locals (lines 82-88)
    accumulated_budget,  \* mills
    total_shares,        \* numerator over 1000 * PriceLcm
    total_invested,      \* mills
    months_waited,
    months_bought,
    trades,
    monthly_summaries,
    result,              \* the value returned (lines 60, 239-258)
    \* technical_analysis.py, detect_boom_range called on its own
    signal_row,          \* the row argument (line 44); None: no call
    signal,              \* the dictionary returned (lines 86-90)
    \* technical_analysis.py, calculate_technical_indicators
    df_close,            \* the close column of the df argument (line 6)
    df_rsi,              \* the rsi column of the returned frame (line 28);
                         \* None: not computed
    \* main.py, analyze_multiple_symbols
    batch_symbols,       \* request.symbols (line 130)
    batch_outcomes,      \* what fetching and calculating does for the
                         \* symbol at each position of the request
    batch_idx,           \* symbols of the for loop consumed (line 130)
    batch_pc,            \* "idle" | "loop" | "done"
    fetch_log,           \* the symbols passed to fetch_historical_data
                         \* (line 133), in call order
    results,             \* line 120
    errors,              \* line 121
    response,            \* what the caller gets (lines 174-207);
                         \* None: not returned yet
    \* data_fetcher.py, fetch_historical_data and the two source fetchers
    fetch_pc,            \* "idle" | "start" | "crypto" | "stock" | "done"
    source_calls,        \* the sources queried so far, in call order
    current_since,       \* pages of candles requested by the while loop of
                         \* fetch_crypto_data (line 109)
    ohlcv_data,          \* the candles gathered by fetch_crypto_data (line 103)
    crypto_df,           \* what fetch_crypto_data returned; None: None, or
                         \* not returned yet
    stock_df,            \* what fetch_stock_data returned, likewise
    fetched              \* how fetch_historical_data ended: a frame or a
                         \* ValueError; None: not ended yet

\* The state of the technical-analysis functions
taVars == <<signal_row, signal, df_close, df_rsi>>

\* The state of calculate_smart_dca
dcaVars == <<strategy, monthly_amount, months, span, current_price, pc,
             month_idx, month_data, accumulated_budget, total_shares,
             total_invested, months_waited, months_bought, trades,
             monthly_summaries, result>>

\* The state of analyze_multiple_symbols
batchVars == <<batch_symbols, batch_outcomes, batch_idx, batch_pc, fetch_log,
               results, errors, response>>

\* The state of fetch_historical_data
fetchVars == <<fetch_pc, source_calls, current_since, ohlcv_data, crypto_df,
               stock_df, fetched>>

\* The state of the API layer
apiVars == <<batchVars, fetchVars>>

vars == <<dcaVars, taVars, apiVars>>

----------------------------------------------------------------------------
(* Bounds of the model *)

MaxMonths == 3
MaxBars == 2
\* runs of bars in a series given to calculate_technical_indicators
MaxRuns == 2
\* symbols of one request to /api/analyze
MaxSymbols == 3
\* pages of candles the date range of fetch_crypto_data can span, and the
\* candles of a full page (the limit of a request)
MaxPages == 3
PageLimit == 2

----------------------------------------------------------------------------
(* Optional values, arithmetic *)

None == <<>>
Some(v) == <<v>>
Val(o) == o[1]

Max(a, b) == IF a >= b THEN a ELSE b
Min(a, b) == IF a <= b THEN a ELSE b
Abs(a) == IF a >= 0 THEN a ELSE 0 - a

\* Python round(): the integer nearest to n/d, ties to the even one (d > 0).
RoundHalfEven(n, d) ==
    LET q == n \div d
        r == n - q * d
    IN  IF 2 * r < d THEN q
        ELSE IF 2 * r > d THEN q + 1
        ELSE IF q % 2 = 0 THEN q ELSE q + 1

\* round(x, 2) of the money amount n/d mills; the result is in mills.
Round2(n, d) == RoundHalfEven(n, d * 10) * 10

RECURSIVE SumSeq(_)
SumSeq(s) == IF s = <<>> THEN 0 ELSE s[1] + SumSeq(Tail(s))

Last(s) == s[Len(s)]

----------------------------------------------------------------------------
(* technical_analysis.detect_boom_range *)

BoomThreshold == 40

\* Mutant: the conditions are chained, the MA50 test is made only when the
\* MA20 test did not fire
detect_boom_range_Chained(row) ==
    LET f1 == row.price_vs_ma20 # None /\ Val(row.price_vs_ma20) < -5
        f2 == /\ ~f1
              /\ row.price_vs_ma50 # None /\ Val(row.price_vs_ma50) < -10
        f3a == row.rsi # None /\ Val(row.rsi) < 30
        f3b == row.rsi # None /\ ~f3a /\ Val(row.rsi) < 40
        f4 == row.price_drop_7d # None /\ Val(row.price_drop_7d) < -10
        f5 == row.price_drop_30d # None /\ Val(row.price_drop_30d) < -20
        signals == (IF f1 THEN <<"below MA20">> ELSE <<>>)
                     \o (IF f2 THEN <<"below MA50">> ELSE <<>>)
                     \o (IF f3a THEN <<"RSI very oversold">> ELSE <<>>)
                     \o (IF f3b THEN <<"RSI oversold">> ELSE <<>>)
                     \o (IF f4 THEN <<"7-day drop">> ELSE <<>>)
                     \o (IF f5 THEN <<"30-day drop">> ELSE <<>>)
        signal_strength == (IF f1 THEN 25 ELSE 0) + (IF f2 THEN 30 ELSE 0)
                             + (IF f3a THEN 30 ELSE 0)
                             + (IF f3b THEN 15 ELSE 0)
                             + (IF f4 THEN 20 ELSE 0)
                             + (IF f5 THEN 25 ELSE 0)
    IN  [is_boom  |-> signal_strength >= BoomThreshold,
         reason   |-> IF signals # <<>> THEN signals
                      ELSE <<"No boom signals">>,
         strength |-> signal_strength]

\* Mutant: a bar is a boom as soon as one condition fires
detect_boom_range_AnySignal(row) ==
    LET s1 == IF row.price_vs_ma20 # None /\ Val(row.price_vs_ma20) < -5
              THEN [pts |-> 25, tag |-> <<"below MA20">>]
              ELSE [pts |-> 0, tag |-> <<>>]
        s2 == IF row.price_vs_ma50 # None /\ Val(row.price_vs_ma50) < -10
              THEN [pts |-> 30, tag |-> <<"below MA50">>]
              ELSE [pts |-> 0, tag |-> <<>>]
        s3 == IF row.rsi # None
              THEN IF Val(row.rsi) < 30
                   THEN [pts |-> 30, tag |-> <<"RSI very oversold">>]
                   ELSE IF Val(row.rsi) < 40
                        THEN [pts |-> 15, tag |-> <<"RSI oversold">>]
                        ELSE [pts |-> 0, tag |-> <<>>]
              ELSE [pts |-> 0, tag |-> <<>>]
        s4 == IF row.price_drop_7d # None /\ Val(row.price_drop_7d) < -10
              THEN [pts |-> 20, tag |-> <<"7-day drop">>]
              ELSE [pts |-> 0, tag |-> <<>>]
        s5 == IF row.price_drop_30d # None /\ Val(row.price_drop_30d) < -20
              THEN [pts |-> 25, tag |-> <<"30-day drop">>]
              ELSE [pts |-> 0, tag |-> <<>>]
        signals == s1.tag \o s2.tag \o s3.tag \o s4.tag \o s5.tag
        signal_strength == s1.pts + s2.pts + s3.pts + s4.pts + s5.pts
    IN  [is_boom  |-> signal_strength > 0,
         reason   |-> IF signals # <<>> THEN signals ELSE <<"No boom signals">>,
         strength |-> signal_strength]

\* Mutant: an undefined rsi is read as 0 (no pd.notna guard on the rsi)
detect_boom_range_NaNAsZero(row) ==
    LET f1 == row.price_vs_ma20 # None /\ Val(row.price_vs_ma20) < -5
        f2 == row.price_vs_ma50 # None /\ Val(row.price_vs_ma50) < -10
        f3a == row.rsi = None \/ Val(row.rsi) < 30
        f3b == ~f3a /\ Val(row.rsi) < 40
        f4 == row.price_drop_7d # None /\ Val(row.price_drop_7d) < -10
        f5 == row.price_drop_30d # None /\ Val(row.price_drop_30d) < -20
        signals == (IF f1 THEN <<"below MA20">> ELSE <<>>)
                     \o (IF f2 THEN <<"below MA50">> ELSE <<>>)
                     \o (IF f3a THEN <<"RSI very oversold">> ELSE <<>>)
                     \o (IF f3b THEN <<"RSI oversold">> ELSE <<>>)
                     \o (IF f4 THEN <<"7-day drop">> ELSE <<>>)
                     \o (IF f5 THEN <<"30-day drop">> ELSE <<>>)
        signal_strength == (IF f1 THEN 25 ELSE 0) + (IF f2 THEN 30 ELSE 0)
                             + (IF f3a THEN 30 ELSE 0)
                             + (IF f3b THEN 15 ELSE 0)
                             + (IF f4 THEN 20 ELSE 0)
                             + (IF f5 THEN 25 ELSE 0)
    IN  [is_boom  |-> signal_strength >= BoomThreshold,
         reason   |-> IF signals # <<>> THEN signals
                      ELSE <<"No boom signals">>,
         strength |-> signal_strength]

detect_boom_range(row) ==
    LET s1 == IF row.price_vs_ma20 # None /\ Val(row.price_vs_ma20) < -5
              THEN [pts |-> 25, tag |-> <<"below MA20">>]
              ELSE [pts |-> 0, tag |-> <<>>]
        s2 == IF row.price_vs_ma50 # None /\ Val(row.price_vs_ma50) < -10
              THEN [pts |-> 30, tag |-> <<"below MA50">>]
              ELSE [pts |-> 0, tag |-> <<>>]
        s3 == IF row.rsi # None
              THEN IF Val(row.rsi) < 30
                   THEN [pts |-> 30, tag |-> <<"RSI very oversold">>]
                   ELSE IF Val(row.rsi) < 40
                        THEN [pts |-> 15, tag |-> <<"RSI oversold">>]
                        ELSE [pts |-> 0, tag |-> <<>>]
              ELSE [pts |-> 0, tag |-> <<>>]
        s4 == IF row.price_drop_7d # None /\ Val(row.price_drop_7d) < -10
              THEN [pts |-> 20, tag |-> <<"7-day drop">>]
              ELSE [pts |-> 0, tag |-> <<>>]
        s5 == IF row.price_drop_30d # None /\ Val(row.price_drop_30d) < -20
              THEN [pts |-> 25, tag |-> <<"30-day drop">>]
              ELSE [pts |-> 0, tag |-> <<>>]
        signals == s1.tag \o s2.tag \o s3.tag \o s4.tag \o s5.tag
        signal_strength == s1.pts + s2.pts + s3.pts + s4.pts + s5.pts
    IN  [is_boom  |-> signal_strength >= BoomThreshold,
         reason   |-> IF signals # <<>> THEN signals ELSE <<"No boom signals">>,
         strength |-> signal_strength]

----------------------------------------------------------------------------
(* technical_analysis.calculate_technical_indicators: the rsi column.      *)
(* delta, gain and loss are whole numbers; a rolling mean is the window's  *)
(* sum over its number of bars; the rsi is an exact rational [num, den],   *)
(* or None for NaN.  IEEE division: x / 0 is inf for x > 0 and NaN for     *)
(* x = 0; 100 - 100 / (1 + inf) is 100 and an expression of NaN is NaN.    *)

RsiWindow == 14

\* delta = df['close'].diff(): NaN at the first bar
Delta(close, i) == IF i = 1 THEN None ELSE Some(close[i] - close[i - 1])

\* delta.where(delta > 0, 0): a NaN delta fails the test and becomes 0
GainAt(close, i) ==
    IF Delta(close, i) # None /\ Val(Delta(close, i)) > 0
    THEN Val(Delta(close, i)) ELSE 0

\* -delta.where(delta < 0, 0)
LossAt(close, i) ==
    IF Delta(close, i) # None /\ Val(Delta(close, i)) < 0
    THEN 0 - Val(Delta(close, i)) ELSE 0

\* The bars of the window rolling(window=14, min_periods=1) ending at bar i
RollingWindow(i) == Max(1, i - RsiWindow + 1)..i

RECURSIVE GainSum(_, _)
GainSum(close, W) ==
    IF W = {} THEN 0
    ELSE LET j == CHOOSE k \in W : TRUE
         IN  GainAt(close, j) + GainSum(close, W \ {j})

RECURSIVE LossSum(_, _)
LossSum(close, W) ==
    IF W = {} THEN 0
    ELSE LET j == CHOOSE k \in W : TRUE
         IN  LossAt(close, j) + LossSum(close, W \ {j})

\* rs = gain / loss; rsi = 100 - (100 / (1 + rs)), at bar i.  gain and loss
\* are means over the same number of bars, so rs is the ratio of the sums.
Rsi(close, i) ==
    LET g == GainSum(close, RollingWindow(i))
        l == LossSum(close, RollingWindow(i))
    IN  IF l = 0
        THEN IF g = 0 THEN None
             ELSE Some([num |-> 100, den |-> 1])
        ELSE Some([num |-> 100 * g, den |-> g + l])

----------------------------------------------------------------------------
(* dca_calculator.PROFILE_CONFIG (fractions per mille) and the strategy    *)
(* resolution at the head of calculate_smart_dca                           *)

PROFILE_CONFIG ==
    [aggressive |->
        [min_signal_strength |-> 30, fallback_threshold |-> 970,
         tiered_base |-> 500, tiered_bonus |-> 450, tiered_floor |-> 350,
         fallback_fraction |-> 600],
     balanced |->
        [min_signal_strength |-> 40, fallback_threshold |-> 950,
         tiered_base |-> 450, tiered_bonus |-> 450, tiered_floor |-> 300,
         fallback_fraction |-> 500],
     conservative |->
        [min_signal_strength |-> 55, fallback_threshold |-> 930,
         tiered_base |-> 350, tiered_bonus |-> 400, tiered_floor |-> 250,
         fallback_fraction |-> 400]]

DEFAULT_PROFILE == "balanced"

strategy_profile(st) ==
    IF st.strategy_profile = None THEN DEFAULT_PROFILE
    ELSE Val(st.strategy_profile)

profile_cfg(st) ==
    IF strategy_profile(st) \in DOMAIN PROFILE_CONFIG
    THEN PROFILE_CONFIG[strategy_profile(st)]
    ELSE PROFILE_CONFIG[DEFAULT_PROFILE]

allocation_mode(st) ==
    LET m == IF st.allocation_mode = None THEN "full"
             ELSE Val(st.allocation_mode)
    IN  IF m \in {"full", "tiered"} THEN m ELSE "full"

\* Mutant: a supplied min_signal_strength of 0 is dropped like a missing one
min_signal_strength_DropsZero(st) ==
    IF st.min_signal_strength = None \/ Val(st.min_signal_strength) = 0
    THEN profile_cfg(st).min_signal_strength
    ELSE Val(st.min_signal_strength)

min_signal_strength(st) ==
    IF st.min_signal_strength = None
    THEN profile_cfg(st).min_signal_strength
    ELSE Val(st.min_signal_strength)

\* strategy.get("min_trade_amount") or 0.0
min_trade_amount(st) ==
    IF st.min_trade_amount = None \/ Val(st.min_trade_amount) = 0
    THEN 0
    ELSE Val(st.min_trade_amount)

\* strategy.get("fallback_threshold") or profile_cfg["fallback_threshold"]
fallback_threshold(st) ==
    IF st.fallback_threshold = None \/ Val(st.fallback_threshold) = 0
    THEN profile_cfg(st).fallback_threshold
    ELSE Val(st.fallback_threshold)

\* monthly_dates = date_range(start_month, end_month, freq='MS')[:months]
\* Mutant: the list of months is not cut to the months requested
NumMonthlyDates_NoSlice(mo, sp) == sp

NumMonthlyDates(mo, sp) == Min(mo, sp)

----------------------------------------------------------------------------
(* The month's candidate: boom scan, discard of a weak boom, fallback scan *)

NoCandidate ==
    [day |-> None, price |-> None, strength |-> 0, reason |-> None,
     trade_type |-> None]

\* Mutant: a later boom bar of equal strength replaces the earlier one
RECURSIVE BoomScan_LastWins(_, _, _)
BoomScan_LastWins(md, k, best) ==
    IF k > Len(md) THEN best
    ELSE LET d == detect_boom_range(md[k])
         IN  IF d.is_boom /\ d.strength >= best.strength
             THEN BoomScan_LastWins(md, k + 1,
                     [day |-> Some(k), price |-> Some(md[k].close),
                      strength |-> d.strength, reason |-> Some(d.reason),
                      trade_type |-> Some("boom_range")])
             ELSE BoomScan_LastWins(md, k + 1, best)

\* for idx, row in month_data.iterrows(): ... (bars k..Len(md))
RECURSIVE BoomScan(_, _, _)
BoomScan(md, k, best) ==
    IF k > Len(md) THEN best
    ELSE LET d == detect_boom_range(md[k])
         IN  IF d.is_boom /\ d.strength > best.strength
             THEN BoomScan(md, k + 1,
                     [day |-> Some(k), price |-> Some(md[k].close),
                      strength |-> d.strength, reason |-> Some(d.reason),
                      trade_type |-> Some("boom_range")])
             ELSE BoomScan(md, k + 1, best)

\* Mutant: a weak boom candidate is kept
DiscardWeak_Never(best, mss) == best

\* Discard weak boom signals if below the required minimum
DiscardWeak(best, mss) ==
    IF best.trade_type = Some("boom_range") /\ best.strength < mss
    THEN [best EXCEPT !.day = None, !.price = None, !.reason = None,
                      !.trade_type = None]
    ELSE best

MonthSum(md) == SumSeq([k \in 1..Len(md) |-> md[k].close])
MonthMin(md) ==
    CHOOSE c \in {md[k].close : k \in 1..Len(md)} :
        \A k \in 1..Len(md) : c <= md[k].close
\* Series.idxmin(): the first position holding the minimum
MonthMinIdx(md) ==
    CHOOSE k \in 1..Len(md) :
        /\ md[k].close = MonthMin(md)
        /\ \A j \in 1..(k - 1) : md[j].close # MonthMin(md)

\* month_min_price < month_avg * fallback_threshold, with
\* month_avg = MonthSum / Len and the threshold per mille
IsDip(md, thr) == MonthMin(md) * Len(md) * 1000 < MonthSum(md) * thr

\* Mutant: the fallback candidate is priced at the month's first bar
FallbackScan_FirstBarPrice(md, best, thr) ==
    IF best.day = None /\ IsDip(md, thr)
    THEN [best EXCEPT !.day = Some(MonthMinIdx(md)),
                      !.price = Some(md[1].close),
                      !.reason = Some(<<"Monthly dip">>),
                      !.trade_type = Some("fallback")]
    ELSE best

\* Mutant: the fallback scan runs although a boom candidate survived
FallbackScan_Always(md, best, thr) ==
    IF IsDip(md, thr)
    THEN [best EXCEPT !.day = Some(MonthMinIdx(md)),
                      !.price = Some(MonthMin(md)),
                      !.reason = Some(<<"Monthly dip">>),
                      !.trade_type = Some("fallback")]
    ELSE best

FallbackScan(md, best, thr) ==
    IF best.day = None /\ IsDip(md, thr)
    THEN [best EXCEPT !.day = Some(MonthMinIdx(md)),
                      !.price = Some(MonthMin(md)),
                      !.reason = Some(<<"Monthly dip">>),
                      !.trade_type = Some("fallback")]
    ELSE best

SelectCandidate(md, st) ==
    FallbackScan(md,
                 DiscardWeak(BoomScan(md, 1, NoCandidate),
                             min_signal_strength(st)),
                 fallback_threshold(st))

----------------------------------------------------------------------------
(* Allocation sizing *)

\* Mutant: the normalized strength is not clamped to [0, 1]
NormalizedStrength_NoClamp(effective_signal, mss) ==
    IF mss < 100
    THEN [num |-> effective_signal - mss, den |-> 100 - mss]
    ELSE [num |-> 0, den |-> 1]

\* normalized_strength as num/den
NormalizedStrength(effective_signal, mss) ==
    IF mss < 100
    THEN [num |-> Max(0, Min(100 - mss, effective_signal - mss)),
          den |-> 100 - mss]
    ELSE [num |-> 0, den |-> 1]

\* Mutant: the strength bonus is taken off the base fraction
AllocationFraction_BonusSubtracted(cand, st) ==
    LET cfg == profile_cfg(st)
        effective_signal ==
            IF cand.trade_type = Some("boom_range") THEN cand.strength ELSE 0
        n == NormalizedStrength(effective_signal, min_signal_strength(st))
    IN  IF allocation_mode(st) = "tiered"
        THEN IF cand.trade_type = Some("boom_range")
             THEN [num |-> Max(cfg.tiered_floor * n.den,
                               Min(cfg.tiered_base * n.den
                                     - cfg.tiered_bonus * n.num,
                                   1000 * n.den)),
                   den |-> 1000 * n.den]
             ELSE [num |-> cfg.fallback_fraction, den |-> 1000]
        ELSE [num |-> 1, den |-> 1]

\* Mutant: the tiered sizing is applied whatever the allocation mode
AllocationFraction_IgnoreMode(cand, st) ==
    LET cfg == profile_cfg(st)
        effective_signal ==
            IF cand.trade_type = Some("boom_range") THEN cand.strength ELSE 0
        n == NormalizedStrength(effective_signal, min_signal_strength(st))
    IN  IF cand.trade_type = Some("boom_range")
        THEN [num |-> Max(cfg.tiered_floor * n.den,
                          Min(cfg.tiered_base * n.den
                                + cfg.tiered_bonus * n.num,
                              1000 * n.den)),
              den |-> 1000 * n.den]
        ELSE [num |-> cfg.fallback_fraction, den |-> 1000]

\* Mutant: a tiered fallback trade is sized like a boom trade of strength 0
AllocationFraction_ScaledFallback(cand, st) ==
    LET cfg == profile_cfg(st)
        effective_signal ==
            IF cand.trade_type = Some("boom_range") THEN cand.strength ELSE 0
        n == NormalizedStrength(effective_signal, min_signal_strength(st))
    IN  IF allocation_mode(st) = "tiered"
        THEN [num |-> Max(cfg.tiered_floor * n.den,
                          Min(cfg.tiered_base * n.den
                                + cfg.tiered_bonus * n.num,
                              1000 * n.den)),
              den |-> 1000 * n.den]
        ELSE [num |-> 1, den |-> 1]

\* allocation_fraction as the exact rational num/den
AllocationFraction(cand, st) ==
    LET cfg == profile_cfg(st)
        effective_signal ==
            IF cand.trade_type = Some("boom_range") THEN cand.strength ELSE 0
        n == NormalizedStrength(effective_signal, min_signal_strength(st))
    IN  IF allocation_mode(st) = "tiered"
        THEN IF cand.trade_type = Some("boom_range")
             THEN [num |-> Max(cfg.tiered_floor * n.den,
                               Min(cfg.tiered_base * n.den
                                     + cfg.tiered_bonus * n.num,
                                   1000 * n.den)),
                   den |-> 1000 * n.den]
             ELSE [num |-> cfg.fallback_fraction, den |-> 1000]
        ELSE [num |-> 1, den |-> 1]

\* Mutant: min_trade_amount is ignored
BelowMinTrade_Never(budget, frac, st) == FALSE

\* amount_invested < min_trade_amount, before any rounding
BelowMinTrade(budget, frac, st) ==
    budget * frac.num < min_trade_amount(st) * frac.den

\* amount_invested = round(accumulated_budget * allocation_fraction, 2)
AmountInvested(budget, frac) == Round2(budget * frac.num, frac.den)

\* Mutant: the budget is reset after a trade instead of reduced
BudgetAfterTrade_Reset(budget, amount) == 0

\* accumulated_budget = max(round(accumulated_budget - amount_invested, 2), 0.0)
BudgetAfterTrade(budget, amount) == Max(Round2(budget - amount, 1), 0)

----------------------------------------------------------------------------
(* Inputs *)

Closes == {8, 9, 10}

\* All derived fields defined, none fires: strength 0
QuietRow ==
    [price_vs_ma20 |-> Some(0), price_vs_ma50 |-> Some(0), rsi |-> Some(50),
     price_drop_7d |-> Some(0), price_drop_30d |-> Some(0)]
\* MA20 (25) + 7-day drop (20): strength 45, a boom
WeakBoomRow ==
    [QuietRow EXCEPT !.price_vs_ma20 = Some(-6), !.price_drop_7d = Some(-11)]
\* MA20 (25) + MA50 (30) + RSI < 30 (30): strength 85
StrongBoomRow ==
    [QuietRow EXCEPT !.price_vs_ma20 = Some(-6), !.price_vs_ma50 = Some(-11),
                     !.rsi = Some(25)]

Bar(c, row) ==
    [close |-> c, price_vs_ma20 |-> row.price_vs_ma20,
     price_vs_ma50 |-> row.price_vs_ma50, rsi |-> row.rsi,
     price_drop_7d |-> row.price_drop_7d,
     price_drop_30d |-> row.price_drop_30d]

\* MA20 (25) alone: strength 25, no boom
FaintRow == [QuietRow EXCEPT !.price_vs_ma20 = Some(-6)]
\* RSI < 40 (15) + MA20 (25): strength 40, the weakest boom
EdgeBoomRow ==
    [QuietRow EXCEPT !.price_vs_ma20 = Some(-6), !.rsi = Some(35)]
\* every condition fires: strength 130
ExtremeRow ==
    [price_vs_ma20 |-> Some(-6), price_vs_ma50 |-> Some(-11),
     rsi |-> Some(25), price_drop_7d |-> Some(-11),
     price_drop_30d |-> Some(-21)]

Bars == {Bar(c, r) : c \in Closes,
                     r \in {QuietRow, FaintRow, WeakBoomRow, StrongBoomRow}}

\* The slices of the series a calendar month can hold.  The one-call
\* specification SpecMonth draws a month from all of WideSlices; the
\* multi-month specification Spec draws each month from MonthSlices.
WideSlices == UNION {[1..n -> Bars] : n \in 0..MaxBars}

MonthSlices ==
    {<<>>,
     <<Bar(10, QuietRow)>>,
     <<Bar(10, QuietRow), Bar(9, QuietRow)>>,
     <<Bar(8, QuietRow), Bar(10, QuietRow)>>,
     <<Bar(10, WeakBoomRow), Bar(9, QuietRow)>>,
     <<Bar(9, StrongBoomRow), Bar(10, StrongBoomRow)>>,
     <<Bar(10, WeakBoomRow), Bar(9, StrongBoomRow)>>}

Profiles == {"aggressive", "balanced", "conservative"}

Strategies ==
    [strategy_profile : {Some(p) : p \in Profiles},
     allocation_mode : {Some("full"), Some("tiered")},
     min_signal_strength : {None, Some(100)},
     min_trade_amount : {None, Some(1500)},
     fallback_threshold : {None}]

\* 1.00 and 1.006: a whole number of cents, and not
MonthlyAmounts == {1000, 1006}

\* Closes of the last bar of the series in runs of several months
CurrentPrices == {9, 10}

\* Inputs of SpecMonth: one call over a one-month series
WideStrategies ==
    [strategy_profile : {Some(p) : p \in Profiles},
     allocation_mode : {Some("full"), Some("tiered")},
     min_signal_strength : {None, Some(0), Some(100)},
     min_trade_amount : {None, Some(700)},
     fallback_threshold : {None}]

\* Inputs of SpecAlloc: tiered runs over a one-bar series, for every
\* threshold the request schema admits (models.py: ge=0, le=100)
AllocStrategies ==
    [strategy_profile : {Some(p) : p \in Profiles},
     allocation_mode : {Some("tiered")},
     min_signal_strength : {None} \cup {Some(t) : t \in 0..100},
     min_trade_amount : {None},
     fallback_threshold : {None}]

AllocSlices ==
    {<<Bar(10, r)>> :
        r \in {EdgeBoomRow, WeakBoomRow, StrongBoomRow, ExtremeRow}}

----------------------------------------------------------------------------
(* Shares: numerators over ShareDen = 1000 * PriceLcm *)

PriceLcm ==
    CHOOSE n \in 1..1000 :
        /\ \A c \in Closes : n % c = 0
        /\ \A m \in 1..(n - 1) : \E c \in Closes : m % c # 0

\* shares_bought = amount_invested / best_buy_price
SharesBought(amount, price) == amount * (PriceLcm \div price)

\* Mutant: the running share total is overwritten, not accumulated
AddShares_Overwrite(total, shares) == shares

\* total_shares += shares_bought
AddShares(total, shares) == total + shares

\* Mutant: total_invested is overwritten by the month's amount
AddInvested_Overwrite(total, amount) == amount

\* total_invested += amount_invested
AddInvested(total, amount) == total + amount

\* round(x, 6), in micro-shares
Round6(shares) == RoundHalfEven(shares * 1000, PriceLcm)

\* round(allocation_fraction, 3) if allocation_mode == 'tiered' else 1.0
TradeAllocationFraction(frac, st) ==
    IF allocation_mode(st) = "tiered"
    THEN RoundHalfEven(frac.num * 1000, frac.den)
    ELSE 1000

----------------------------------------------------------------------------
(* Valuation at current_price.  A value of shares is the exact rational    *)
(* shares * cp / PriceLcm mills; a percentage is kept in hundredths of a   *)
(* percent, the unit of round(x, 2).                                       *)

\* trade_current_value = shares_bought * current_price, and
\* current_value = total_shares * current_price, rounded to cents
CurrentValue(shares, cp) == Round2(shares * cp, PriceLcm)

\* trade_profit_loss = trade_current_value - amount_invested, and
\* profit_loss = current_value - total_invested: the numerator over PriceLcm
ProfitLossNum(shares, cp, invested) == shares * cp - invested * PriceLcm

\* round(profit_loss, 2)
ProfitLoss(shares, cp, invested) ==
    Round2(ProfitLossNum(shares, cp, invested), PriceLcm)

\* Mutant: the percentage is the value, not the profit, over the invested
\* amount
ProfitLossPercent_OfValue(shares, cp, invested) ==
    IF invested > 0
    THEN RoundHalfEven(((shares * cp) \div 10) * 10000,
                       PriceLcm * (invested \div 10))
    ELSE 0

\* (profit_loss / invested * 100) if invested > 0 else 0, rounded to two
\* places.  invested is a sum of amounts rounded to cents, so it and the
\* numerator of the profit are multiples of 10 mills; the common factor is
\* removed before the multiplication.
ProfitLossPercent(shares, cp, invested) ==
    IF invested > 0
    THEN RoundHalfEven((ProfitLossNum(shares, cp, invested) \div 10) * 10000,
                       PriceLcm * (invested \div 10))
    ELSE 0

----------------------------------------------------------------------------
(* The records appended by the month loop *)

Trade(k, cand, frac, amount, shares, shares_after, st, cp) ==
    [trade_date |-> <<k, Val(cand.day)>>,
     month |-> k,
     entry_price |-> Val(cand.price),
     amount_invested |-> Round2(amount, 1),
     shares_bought |-> Round6(shares),
     total_shares_after |-> Round6(shares_after),
     signal_strength |-> IF cand.strength > 0 THEN Some(cand.strength)
                         ELSE None,
     signal_reason |-> cand.reason,
     trade_type |-> Val(cand.trade_type),
     accumulated_budget_used |-> Round2(amount, 1),
     current_price |-> cp,
     current_value |-> CurrentValue(shares, cp),
     profit_loss |-> ProfitLoss(shares, cp, amount),
     profit_loss_percent |-> ProfitLossPercent(shares, cp, amount),
     allocation_fraction |-> TradeAllocationFraction(frac, st),
     signal_threshold |-> min_signal_strength(st)]

NoTradeSummary(k, budget, amt) ==
    [month |-> k, traded |-> FALSE, trade |-> None,
     accumulated_budget |-> budget, monthly_budget |-> amt,
     allocation_fraction |-> None]

\* Mutant: the ledger entry of a traded month does not carry the trade
TradeSummary_NoTrade(k, trade, budget, amt) ==
    [month |-> k, traded |-> TRUE, trade |-> None,
     accumulated_budget |-> budget, monthly_budget |-> amt,
     allocation_fraction |-> Some(trade.allocation_fraction)]

TradeSummary(k, trade, budget, amt) ==
    [month |-> k, traded |-> TRUE, trade |-> Some(trade),
     accumulated_budget |-> budget, monthly_budget |-> amt,
     allocation_fraction |-> Some(trade.allocation_fraction)]

----------------------------------------------------------------------------
(* calculate_smart_dca *)

\* No call of calculate_smart_dca
DcaIdle ==
    /\ strategy = None
    /\ monthly_amount = 0
    /\ months = 0
    /\ span = 0
    /\ current_price = None
    /\ pc = "done"
    /\ month_idx = 0
    /\ month_data = <<>>
    /\ accumulated_budget = 0
    /\ total_shares = 0
    /\ total_invested = 0
    /\ months_waited = 0
    /\ months_bought = 0
    /\ trades = <<>>
    /\ monthly_summaries = <<>>
    /\ result = None

\* No call of a technical-analysis function on its own
TaIdle ==
    /\ signal_row = None
    /\ signal = None
    /\ df_close = <<>>
    /\ df_rsi = None

\* No call of analyze_multiple_symbols
BatchIdle ==
    /\ batch_symbols = <<>>
    /\ batch_outcomes = <<>>
    /\ batch_idx = 0
    /\ batch_pc = "idle"
    /\ fetch_log = <<>>
    /\ results = <<>>
    /\ errors = <<>>
    /\ response = None

\* No call of fetch_historical_data
FetchIdle ==
    /\ fetch_pc = "idle"
    /\ source_calls = <<>>
    /\ current_since = 0
    /\ ohlcv_data = <<>>
    /\ crypto_df = None
    /\ stock_df = None
    /\ fetched = None

\* No request at the API layer
ApiIdle == BatchIdle /\ FetchIdle

InitOver(strategies, amounts, requested, spans, prices) ==
    /\ strategy \in strategies
    /\ monthly_amount \in amounts
    /\ months \in requested
    /\ span \in spans
    /\ current_price \in IF span = 0 THEN {None}
                         ELSE {Some(p) : p \in prices}
    /\ TaIdle
    /\ ApiIdle
    /\ pc = "loop"
    /\ month_idx = 0
    /\ month_data = <<>>
    /\ accumulated_budget = 0
    /\ total_shares = 0
    /\ total_invested = 0
    /\ months_waited = 0
    /\ months_bought = 0
    /\ trades = <<>>
    /\ monthly_summaries = <<>>
    /\ result = None

\* Mutant: a missing or empty series yields an empty result dictionary
ReturnNone_EmptyResult ==
    /\ pc = "loop"
    /\ span = 0
    /\ pc' = "done"
    /\ result' = Some([total_invested |-> 0, total_shares |-> 0,
                       months_bought |-> 0, months_waited |-> 0,
                       trades |-> <<>>, monthly_summary |-> <<>>])
    /\ UNCHANGED <<taVars, apiVars, current_price,
                   strategy, monthly_amount, months, span, month_idx,
                   month_data, accumulated_budget, total_shares,
                   total_invested, months_waited, months_bought, trades,
                   monthly_summaries>>

\* if df is None or df.empty: return None
ReturnNone ==
    /\ pc = "loop"
    /\ span = 0
    /\ pc' = "done"
    /\ result' = None
    /\ UNCHANGED <<taVars, apiVars, current_price,
                   strategy, monthly_amount, months, span, month_idx,
                   month_data, accumulated_budget, total_shares,
                   total_invested, months_waited, months_bought, trades,
                   monthly_summaries>>

\* for purchase_date in monthly_dates: a month is left to process
InLoop ==
    /\ pc = "loop"
    /\ span > 0
    /\ month_idx < NumMonthlyDates(months, span)

\* md can be the slice of the series for the month the loop is at: the
\* first and the last calendar month of the series hold a bar, and the last
\* bar of the last month is the bar current_price is read from.
AtMonth(md) ==
    /\ month_idx + 1 \in {1, span} => md # <<>>
    /\ month_idx + 1 = span => Last(md).close = Val(current_price)

Budget == accumulated_budget + monthly_amount

\* Mutant: a month without bars is skipped without a ledger entry
MonthNoData_NoEntry(S) ==
    /\ InLoop
    /\ <<>> \in S
    /\ AtMonth(<<>>)
    /\ month_idx' = month_idx + 1
    /\ month_data' = <<>>
    /\ accumulated_budget' = Budget
    /\ UNCHANGED <<taVars, apiVars, current_price,
                   strategy, monthly_amount, months, span, pc, total_shares,
                   total_invested, months_waited, months_bought, trades,
                   monthly_summaries, result>>

\* if month_data.empty: append a summary; continue
MonthNoData(S) ==
    /\ InLoop
    /\ <<>> \in S
    /\ AtMonth(<<>>)
    /\ month_idx' = month_idx + 1
    /\ month_data' = <<>>
    /\ accumulated_budget' = Budget
    /\ monthly_summaries' =
          Append(monthly_summaries,
                 NoTradeSummary(month_idx + 1, Budget, monthly_amount))
    /\ UNCHANGED <<taVars, apiVars, current_price,
                   strategy, monthly_amount, months, span, pc, total_shares,
                   total_invested, months_waited, months_bought, trades,
                   result>>

\* else: No trade this month
MonthNoCandidate(S) ==
    /\ InLoop
    /\ \E md \in S :
        /\ AtMonth(md)
        /\ md # <<>>
        /\ SelectCandidate(md, strategy).day = None
        /\ month_idx' = month_idx + 1
        /\ month_data' = md
        /\ accumulated_budget' = Budget
        /\ monthly_summaries' =
              Append(monthly_summaries,
                     NoTradeSummary(month_idx + 1, Budget, monthly_amount))
        /\ months_waited' = months_waited + 1
        /\ UNCHANGED <<taVars, apiVars, current_price,
                       strategy, monthly_amount, months, span, pc,
                       total_shares, total_invested, months_bought, trades,
                       result>>

\* if amount_invested < min_trade_amount: append a summary; continue
\* (the locals cand, frac, ... are bound by \E over a one-element set, so
\* that each is computed once)
MonthAbandoned(S) ==
    /\ InLoop
    /\ \E md \in S :
        /\ AtMonth(md)
        /\ md # <<>>
        /\ \E cand \in {SelectCandidate(md, strategy)} :
            /\ cand.day # None
            /\ \E frac \in {AllocationFraction(cand, strategy)} :
                /\ BelowMinTrade(Budget, frac, strategy)
                /\ month_idx' = month_idx + 1
                /\ month_data' = md
                /\ accumulated_budget' = Budget
                /\ monthly_summaries' =
                      Append(monthly_summaries,
                             NoTradeSummary(month_idx + 1, Round2(Budget, 1),
                                            monthly_amount))
                /\ months_waited' = months_waited + 1
                /\ UNCHANGED <<taVars, apiVars, current_price,
                               strategy, monthly_amount, months, span, pc,
                               total_shares, total_invested, months_bought,
                               trades, result>>

\* Execute buy
MonthTrade(S) ==
    /\ InLoop
    /\ \E md \in S :
        /\ AtMonth(md)
        /\ md # <<>>
        /\ \E cand \in {SelectCandidate(md, strategy)} :
            /\ cand.day # None
            /\ \E frac \in {AllocationFraction(cand, strategy)} :
                /\ ~BelowMinTrade(Budget, frac, strategy)
                /\ \E amount \in {AmountInvested(Budget, frac)} :
                   \E shares \in {SharesBought(amount, Val(cand.price))} :
                   \E trade \in {Trade(month_idx + 1, cand, frac, amount,
                                       shares,
                                       AddShares(total_shares, shares),
                                       strategy, Val(current_price))} :
                    /\ month_idx' = month_idx + 1
                    /\ month_data' = md
                    /\ total_shares' = AddShares(total_shares, shares)
                    /\ total_invested' = AddInvested(total_invested, amount)
                    /\ trades' = Append(trades, trade)
                    /\ accumulated_budget' = BudgetAfterTrade(Budget, amount)
                    /\ monthly_summaries' =
                          Append(monthly_summaries,
                                 TradeSummary(month_idx + 1, trade,
                                              BudgetAfterTrade(Budget, amount),
                                              monthly_amount))
                    /\ months_bought' = months_bought + 1
                    /\ UNCHANGED <<taVars, apiVars, current_price,
                                   strategy, monthly_amount, months, span, pc,
                                   months_waited, result>>

\* The returned dictionary
Result ==
    [total_invested |-> Round2(total_invested, 1),
     total_shares |-> Round6(total_shares),
     current_value |-> CurrentValue(total_shares, Val(current_price)),
     current_price |-> Val(current_price),
     profit_loss |-> ProfitLoss(total_shares, Val(current_price),
                                total_invested),
     return_percent |-> ProfitLossPercent(total_shares, Val(current_price),
                                          total_invested),
     months_bought |-> months_bought,
     months_waited |-> months_waited,
     buy_rate |-> IF NumMonthlyDates(months, span) > 0
                  THEN RoundHalfEven(months_bought * 10000,
                                     NumMonthlyDates(months, span))
                  ELSE 0,
     unused_budget |-> Round2(accumulated_budget, 1),
     trades |-> trades,
     monthly_summary |-> monthly_summaries,
     strategy_profile |-> strategy_profile(strategy),
     allocation_mode |-> allocation_mode(strategy),
     min_signal_strength |-> min_signal_strength(strategy),
     min_trade_amount |-> min_trade_amount(strategy),
     fallback_threshold |-> Round2(fallback_threshold(strategy), 1)]

Return ==
    /\ pc = "loop"
    /\ span > 0
    /\ month_idx = NumMonthlyDates(months, span)
    /\ pc' = "done"
    /\ result' = Some(Result)
    /\ UNCHANGED <<taVars, apiVars, current_price,
                   strategy, monthly_amount, months, span, month_idx,
                   month_data, accumulated_budget, total_shares,
                   total_invested, months_waited, months_bought, trades,
                   monthly_summaries>>

Next ==
    \/ ReturnNone
    \/ MonthNoData(MonthSlices)
    \/ MonthNoCandidate(MonthSlices)
    \/ MonthAbandoned(MonthSlices)
    \/ MonthTrade(MonthSlices)
    \/ Return

Init ==
    InitOver(Strategies, MonthlyAmounts, 0..MaxMonths, 0..MaxMonths,
             CurrentPrices)

\* Runs of up to MaxMonths months, each month one of MonthSlices
Spec == Init /\ [][Next]_vars

\* Runs of up to MaxMonths months under the tiered aggressive strategy, with
\* and without a minimum trade amount, carried on to the return: the function is sequential code that
\* never blocks, so a step that can be taken eventually is.
FairStrategies ==
    {st \in Strategies :
        /\ st.strategy_profile = Some("aggressive")
        /\ st.min_signal_strength = None
        /\ st.min_trade_amount \in {None, Some(1500)}
        /\ st.allocation_mode = Some("tiered")}

InitFair ==
    InitOver(FairStrategies, {1000}, 0..MaxMonths, 0..MaxMonths,
             CurrentPrices)

SpecFair == InitFair /\ [][Next]_vars /\ WF_vars(Next)

\* Runs of up to MaxMonths months under each profile and mode at the
\* profile's threshold, with a monthly_amount of 0 or 1.00
ValueStrategies == {st \in Strategies : st.min_signal_strength = None}

InitValue ==
    InitOver(ValueStrategies, {0, 1000}, 0..MaxMonths, 0..MaxMonths,
             CurrentPrices)

SpecValue == InitValue /\ [][Next]_vars

InitMonth == InitOver(WideStrategies, {1000}, {1}, {1}, Closes)

NextMonth ==
    \/ MonthNoCandidate(WideSlices)
    \/ MonthAbandoned(WideSlices)
    \/ MonthTrade(WideSlices)
    \/ Return

\* One call over a series of one calendar month holding any 1..MaxBars bars
SpecMonth == InitMonth /\ [][NextMonth]_vars

InitAlloc == InitOver(AllocStrategies, {1000}, {1}, {1}, {10})

NextAlloc ==
    \/ MonthNoCandidate(AllocSlices)
    \/ MonthTrade(AllocSlices)
    \/ Return

\* One tiered call over a one-bar series, for every threshold 0..100
SpecAlloc == InitAlloc /\ [][NextAlloc]_vars

\* Inputs of SpecSizing: both modes, every profile, thresholds below, between
\* and above the strengths of the boom bars
SizingStrategies ==
    [strategy_profile : {Some(p) : p \in Profiles},
     allocation_mode : {Some("full"), Some("tiered")},
     min_signal_strength : {None, Some(0), Some(70), Some(100)},
     min_trade_amount : {None},
     fallback_threshold : {None}]

SizingSlices == AllocSlices \cup {<<Bar(8, QuietRow), Bar(10, QuietRow)>>}

InitSizing == InitOver(SizingStrategies, MonthlyAmounts, {1, 2}, {1, 2}, {10})

NextSizing ==
    \/ MonthNoCandidate(SizingSlices)
    \/ MonthTrade(SizingSlices)
    \/ Return

\* Calls over one or two months, each month one boom bar or a dip, with a
\* monthly_amount in whole cents or not
SpecSizing == InitSizing /\ [][NextSizing]_vars

----------------------------------------------------------------------------
(* One tiered call whose strategy dictionary may carry a value for each    *)
(* field of the profile table                                              *)

OverrideStrategies ==
    [strategy_profile : {Some(p) : p \in Profiles},
     allocation_mode : {Some("tiered")},
     min_signal_strength : {None, Some(0), Some(50)},
     min_trade_amount : {None},
     fallback_threshold : {None, Some(0), Some(990)},
     tiered_base : {None, Some(200)},
     tiered_bonus : {None, Some(100)},
     tiered_floor : {None, Some(900)},
     fallback_fraction : {None, Some(250)}]

\* A quiet bar; a dip of 5% and one of 11% below the mean; a weak and a
\* strong boom bar
OverrideSlices ==
    {<<Bar(10, QuietRow)>>,
     <<Bar(10, QuietRow), Bar(9, QuietRow)>>,
     <<Bar(8, QuietRow), Bar(10, QuietRow)>>,
     <<Bar(10, WeakBoomRow)>>,
     <<Bar(10, StrongBoomRow)>>}

InitOverride == InitOver(OverrideStrategies, {1000}, {1}, {1}, Closes)

NextOverride ==
    \/ MonthNoCandidate(OverrideSlices)
    \/ MonthTrade(OverrideSlices)
    \/ Return

SpecOverride == InitOverride /\ [][NextOverride]_vars

----------------------------------------------------------------------------
(* calculate_technical_indicators called on a series *)

\* The series of closes: a first close followed by up to MaxRuns runs of
\* bars, each run falling by 1, flat or rising by 1 over RunLengths bars
\* (one bar, one bar less than the rsi window, the whole window)
StartClose == 50
RunLengths == {1, RsiWindow - 1, RsiWindow}

RECURSIVE Extend(_, _, _)
Extend(close, d, n) ==
    IF n = 0 THEN close
    ELSE Extend(Append(close, Last(close) + d), d, n - 1)

RECURSIVE SeriesOfRuns(_)
SeriesOfRuns(k) ==
    IF k = 0 THEN {<<StartClose>>}
    ELSE SeriesOfRuns(k - 1)
           \cup {Extend(c, d, n) : c \in SeriesOfRuns(k - 1),
                                   d \in {-1, 0, 1}, n \in RunLengths}

InitIndicators ==
    /\ DcaIdle
    /\ ApiIdle
    /\ signal_row = None
    /\ signal = None
    /\ df_close \in SeriesOfRuns(MaxRuns)
    /\ df_rsi = None

\* df['rsi'] = 100 - (100 / (1 + rs))
CalculateIndicators ==
    /\ df_close # <<>>
    /\ df_rsi = None
    /\ df_rsi' = Some([i \in 1..Len(df_close) |-> Rsi(df_close, i)])
    /\ UNCHANGED <<dcaVars, apiVars, signal_row, signal, df_close>>

NextIndicators == CalculateIndicators

\* One call of calculate_technical_indicators on a series of SeriesOfRuns
SpecIndicators == InitIndicators /\ [][NextIndicators]_vars

----------------------------------------------------------------------------
(* detect_boom_range called on one row *)

\* Rows whose derived fields are undefined (NaN) or lie on either side of
\* the condition's threshold
DetectRows ==
    [price_vs_ma20 : {None, Some(-6), Some(-5), Some(0)},
     price_vs_ma50 : {None, Some(-11), Some(-10), Some(0)},
     rsi : {None, Some(25), Some(30), Some(35), Some(40), Some(50)},
     price_drop_7d : {None, Some(-11), Some(-10), Some(0)},
     price_drop_30d : {None, Some(-21), Some(-20), Some(0)}]

InitDetect ==
    /\ DcaIdle
    /\ ApiIdle
    /\ signal_row \in {Some(r) : r \in DetectRows}
    /\ signal = None
    /\ df_close = <<>>
    /\ df_rsi = None

\* return is_boom, reason, signal_strength
DetectBoomRange ==
    /\ signal_row # None
    /\ signal = None
    /\ signal' = Some(detect_boom_range(Val(signal_row)))
    /\ UNCHANGED <<dcaVars, apiVars, signal_row, df_close, df_rsi>>

NextDetect == DetectBoomRange

\* One call of detect_boom_range on any row of DetectRows
SpecDetect == InitDetect /\ [][NextDetect]_vars

----------------------------------------------------------------------------
(* main.analyze_multiple_symbols.  What fetch_historical_data,             *)
(* calculate_smart_dca and convert_result_to_dca_result do for a symbol is *)
(* an input of the request: batch_outcomes gives, for each position of     *)
(* request.symbols, whether the fetch returns None ("no_data"), the        *)
(* calculation returns an empty result ("empty_result"), one of the three  *)
(* calls raises ("raises"), or a DCAResult of a return_percent is built    *)
(* ("ok").  An error text is kept as the pair of its symbol and its kind.  *)

Symbols == {"BTC", "AAPL"}

ReturnPercents == {-5, 5}

Outcomes ==
    [kind : {"no_data", "empty_result", "raises"}, return_percent : {0}]
      \cup [kind : {"ok"}, return_percent : ReturnPercents]

SeqsUpTo(S, n) == UNION {[1..k -> S] : k \in 0..n}

\* max(results, key=lambda x: x.return_percent): the first of the greatest
BestPerformer(rs) ==
    rs[CHOOSE i \in 1..Len(rs) :
         /\ \A j \in 1..Len(rs) : rs[j].return_percent <= rs[i].return_percent
         /\ \A j \in 1..(i - 1) : rs[j].return_percent < rs[i].return_percent]

\* min(results, key=lambda x: x.return_percent): the first of the least
WorstPerformer(rs) ==
    rs[CHOOSE i \in 1..Len(rs) :
         /\ \A j \in 1..Len(rs) : rs[j].return_percent >= rs[i].return_percent
         /\ \A j \in 1..(i - 1) : rs[j].return_percent > rs[i].return_percent]

\* the summary dictionary
Summary(rs) ==
    [best_performer |-> BestPerformer(rs),
     worst_performer |-> WorstPerformer(rs),
     total_symbols |-> Len(rs)]

\* the message: the counts and errors[:3]
Message(rs, es) ==
    [analyzed |-> Len(rs),
     error_count |-> Len(es),
     shown |-> SubSeq(es, 1, Min(3, Len(es)))]

InitBatch ==
    /\ DcaIdle
    /\ TaIdle
    /\ FetchIdle
    /\ batch_symbols \in SeqsUpTo(Symbols, MaxSymbols)
    /\ batch_outcomes \in [1..Len(batch_symbols) -> Outcomes]
    /\ batch_idx = 0
    /\ batch_pc = "loop"
    /\ fetch_log = <<>>
    /\ results = <<>>
    /\ errors = <<>>
    /\ response = None

\* for symbol in request.symbols: one more symbol to process
InBatchLoop ==
    /\ batch_pc = "loop"
    /\ batch_idx < Len(batch_symbols)

\* the symbol of the iteration and what processing it does
Symbol == batch_symbols[batch_idx + 1]
Outcome == batch_outcomes[batch_idx + 1]

\* df = fetch_historical_data(symbol, request.months), then the end of the
\* iteration
Attempt ==
    /\ fetch_log' = Append(fetch_log, Symbol)
    /\ batch_idx' = batch_idx + 1
    /\ UNCHANGED <<dcaVars, taVars, fetchVars, batch_symbols, batch_outcomes,
                   batch_pc, response>>

\* if df is None: errors.append(...); continue
SymbolNoData ==
    /\ InBatchLoop
    /\ Outcome.kind = "no_data"
    /\ errors' = Append(errors, [symbol |-> Symbol, error |-> "No data available"])
    /\ UNCHANGED results
    /\ Attempt

\* if result: ... else: errors.append(...)
SymbolEmptyResult ==
    /\ InBatchLoop
    /\ Outcome.kind = "empty_result"
    /\ errors' = Append(errors, [symbol |-> Symbol, error |-> "Calculation failed"])
    /\ UNCHANGED results
    /\ Attempt

\* A handler that lets the exception leave the loop: the outer handler
\* turns it into the request's failure
SymbolRaises_Aborts ==
    /\ InBatchLoop
    /\ Outcome.kind = "raises"
    /\ fetch_log' = Append(fetch_log, Symbol)
    /\ batch_pc' = "done"
    /\ response' = Some([raised |-> "HTTPException", status_code |-> 500])
    /\ UNCHANGED <<dcaVars, taVars, fetchVars, batch_symbols, batch_outcomes,
                   batch_idx, results, errors>>

\* except Exception as e: errors.append(error_msg)
SymbolRaises ==
    /\ InBatchLoop
    /\ Outcome.kind = "raises"
    /\ errors' = Append(errors, [symbol |-> Symbol, error |-> "Error processing"])
    /\ UNCHANGED results
    /\ Attempt

\* if result: results.append(convert_result_to_dca_result(result))
SymbolOk ==
    /\ InBatchLoop
    /\ Outcome.kind = "ok"
    /\ results' = Append(results, [symbol |-> Symbol,
                                   return_percent |-> Outcome.return_percent])
    /\ UNCHANGED errors
    /\ Attempt

\* if not results: raise HTTPException(status_code=400, ...), which the
\* outer except Exception catches and raises again with status_code=500
BatchFail ==
    /\ batch_pc = "loop"
    /\ batch_idx = Len(batch_symbols)
    /\ results = <<>>
    /\ batch_pc' = "done"
    /\ response' = Some([raised |-> "HTTPException", status_code |-> 500])
    /\ UNCHANGED <<dcaVars, taVars, fetchVars, batch_symbols, batch_outcomes,
                   batch_idx, fetch_log, results, errors>>

\* return DCAResponse(success=True, results=results, summary=summary,
\* message=message)
BatchReturn ==
    /\ batch_pc = "loop"
    /\ batch_idx = Len(batch_symbols)
    /\ results # <<>>
    /\ batch_pc' = "done"
    /\ response' = Some([success |-> TRUE,
                         results |-> results,
                         summary |-> Summary(results),
                         message |-> Message(results, errors)])
    /\ UNCHANGED <<dcaVars, taVars, fetchVars, batch_symbols, batch_outcomes,
                   batch_idx, fetch_log, results, errors>>

NextBatch ==
    \/ SymbolNoData
    \/ SymbolEmptyResult
    \/ SymbolRaises
    \/ SymbolOk
    \/ BatchFail
    \/ BatchReturn

\* One request to /api/analyze
SpecBatch == InitBatch /\ [][NextBatch]_vars

----------------------------------------------------------------------------
(* data_fetcher.fetch_historical_data, with fetch_crypto_data and          *)
(* fetch_stock_data.  A candle or bar is the record of its source, the     *)
(* request that brought it and whether its timestamp lies in the date      *)
(* range asked for; a frame is the sequence of its rows.  What the         *)
(* exchange and the stock service answer is drawn when they are called.    *)
(* current_since counts the pages requested: the date range is exhausted   *)
(* after MaxPages full pages.                                              *)

Candle(p, r) == [source |-> "crypto", page |-> p, in_range |-> r]

\* the pages exchange.fetch_ohlcv can answer to the request p
Pages(p) ==
    UNION {[1..n -> {Candle(p, r) : r \in BOOLEAN}] : n \in 0..PageLimit}

StockBar == [source |-> "stock", page |-> 0, in_range |-> TRUE]

\* the non-empty frames ticker.history can answer
Histories == UNION {[1..n -> {StockBar}] : n \in 1..MaxBars}

\* df[(df.index >= start_date) & (df.index <= end_date)]
InRange(c) == c.in_range
FilterToRange(candles) == SelectSeq(candles, InRange)

InitFetch ==
    /\ DcaIdle
    /\ TaIdle
    /\ BatchIdle
    /\ fetch_pc = "start"
    /\ source_calls = <<>>
    /\ current_since = 0
    /\ ohlcv_data = <<>>
    /\ crypto_df = None
    /\ stock_df = None
    /\ fetched = None

\* df = fetch_crypto_data(symbol, months)
CallCrypto ==
    /\ fetch_pc = "start"
    /\ fetch_pc' = "crypto"
    /\ source_calls' = Append(source_calls, "crypto")
    /\ UNCHANGED <<dcaVars, taVars, batchVars, current_since, ohlcv_data,
                   crypto_df, stock_df, fetched>>

\* fetch_crypto_data returned None: df = fetch_stock_data(symbol, months)
CryptoNoneThenStock ==
    /\ fetch_pc' = "stock"
    /\ crypto_df' = None
    /\ source_calls' = Append(source_calls, "stock")
    /\ UNCHANGED <<dcaVars, taVars, batchVars, stock_df, fetched>>

\* fetch_crypto_data returned a frame: if df is not None and not df.empty:
\* return df
CryptoFrameReturned(df) ==
    /\ fetch_pc' = "done"
    /\ crypto_df' = Some(df)
    /\ fetched' = Some([kind |-> "frame", df |-> df])
    /\ UNCHANGED <<dcaVars, taVars, batchVars, source_calls, stock_df>>

\* the symbol is on no market of the exchange: return None
CryptoUnlisted ==
    /\ fetch_pc = "crypto"
    /\ current_since = 0
    /\ UNCHANGED <<current_since, ohlcv_data>>
    /\ CryptoNoneThenStock

\* except Exception: return None, whatever was gathered (ohlcv_data keeps
\* the candles of the abandoned call, which nothing reads any more)
CryptoRaises ==
    /\ fetch_pc = "crypto"
    /\ UNCHANGED <<current_since, ohlcv_data>>
    /\ CryptoNoneThenStock

\* a full page short of the end of the date range: ohlcv_data.extend(candles)
\* and the next request
CryptoFullPage ==
    /\ fetch_pc = "crypto"
    /\ current_since + 1 < MaxPages
    /\ \E candles \in Pages(current_since + 1) :
        /\ Len(candles) = PageLimit
        /\ ohlcv_data' = ohlcv_data \o candles
        /\ current_since' = current_since + 1
        /\ UNCHANGED <<dcaVars, taVars, batchVars, fetch_pc, source_calls,
                       crypto_df, stock_df, fetched>>

\* the page that ends the loop (no candle, fewer than the limit, or the end
\* of the date range), the frame built of ohlcv_data and filtered to the
\* date range, and the return of fetch_crypto_data
CryptoLastPage ==
    /\ fetch_pc = "crypto"
    /\ \E candles \in Pages(current_since + 1) :
        /\ Len(candles) < PageLimit \/ current_since + 1 = MaxPages
        /\ ohlcv_data' = ohlcv_data \o candles
        /\ current_since' = current_since + 1
        /\ \E df \in {FilterToRange(ohlcv_data \o candles)} :
            IF df = <<>>
            THEN CryptoNoneThenStock
            ELSE CryptoFrameReturned(df)

\* Mutant: the stock bars are added to the candles gathered before the
\* crypto fetch gave up
StockFrame_Merges ==
    /\ fetch_pc = "stock"
    /\ \E df \in Histories :
        /\ stock_df' = Some(df)
        /\ fetched' = Some([kind |-> "frame", df |-> ohlcv_data \o df])
        /\ fetch_pc' = "done"
        /\ UNCHANGED <<dcaVars, taVars, batchVars, source_calls,
                       current_since, ohlcv_data, crypto_df>>

\* fetch_stock_data returned a frame: return df
StockFrame ==
    /\ fetch_pc = "stock"
    /\ \E df \in Histories :
        /\ stock_df' = Some(df)
        /\ fetched' = Some([kind |-> "frame", df |-> df])
        /\ fetch_pc' = "done"
        /\ UNCHANGED <<dcaVars, taVars, batchVars, source_calls,
                       current_since, ohlcv_data, crypto_df>>

\* fetch_stock_data returned None (an empty history or an exception):
\* raise ValueError
StockNone ==
    /\ fetch_pc = "stock"
    /\ fetched' = Some([kind |-> "ValueError", df |-> <<>>])
    /\ fetch_pc' = "done"
    /\ UNCHANGED <<dcaVars, taVars, batchVars, source_calls, current_since,
                   ohlcv_data, crypto_df, stock_df>>

NextFetch ==
    \/ CallCrypto
    \/ CryptoUnlisted
    \/ CryptoRaises
    \/ CryptoFullPage
    \/ CryptoLastPage
    \/ StockFrame
    \/ StockNone

\* One call of fetch_historical_data
SpecFetch == InitFetch /\ [][NextFetch]_vars

----------------------------------------------------------------------------
(* Claims *)

\* The step of the month loop: one more month of monthly_dates consumed
MonthStep == month_idx' = month_idx + 1

\* amount_invested of a ledger entry, 0 when the month has no trade
InvestedIn(entry) ==
    IF entry.traded THEN Val(entry.trade).amount_invested ELSE 0

\* C1: in every run that returns a result, months_bought + months_waited
\* equals the number of simulated months (the length of the monthly ledger).
C1_MonthsAccounted ==
    (pc = "done" /\ result # None) =>
        Val(result).months_bought + Val(result).months_waited
            = Len(Val(result).monthly_summary)

\* C2 as stated: in every month, the accumulated budget recorded after the
\* month equals the budget before plus monthly_amount minus the month's
\* amount_invested, floored at 0.
C2_BudgetConservation ==
    [][MonthStep =>
        Last(monthly_summaries').accumulated_budget
          = Max(accumulated_budget + monthly_amount
                  - InvestedIn(Last(monthly_summaries')), 0)]_vars

\* C2 amended: the equation holds exactly when monthly_amount is a whole
\* number of cents, and otherwise up to the rounding to cents (the recorded
\* budget differs from it by at most half a cent).
C2_BudgetConservationCents ==
    [][MonthStep =>
        LET recorded == Last(monthly_summaries').accumulated_budget
            exact == Max(accumulated_budget + monthly_amount
                           - InvestedIn(Last(monthly_summaries')), 0)
        IN  /\ monthly_amount % 10 = 0 => recorded = exact
            /\ 2 * Abs(recorded - exact) <= 10]_vars

\* C2 witness: with whole cents, a tiered trade deploys part of a budget
\* carried over a non-traded month and leaves the rest.
C2_Witness ==
    /\ monthly_amount % 10 = 0
    /\ Len(monthly_summaries) >= 2
    /\ ~monthly_summaries[Len(monthly_summaries) - 1].traded
    /\ Last(monthly_summaries).traded
    /\ Last(monthly_summaries).accumulated_budget > 0
    /\ InvestedIn(Last(monthly_summaries)) > monthly_amount

\* The boom bars of a month and the strongest strength among them
BoomBars(md) == {k \in 1..Len(md) : detect_boom_range(md[k]).is_boom}
BestBoomStrength(md) ==
    CHOOSE v \in {detect_boom_range(md[k]).strength : k \in BoomBars(md)} :
        \A k \in BoomBars(md) : detect_boom_range(md[k]).strength <= v

\* The ledger entry of the month processed last records a trade of type t
LastTradeIs(t) ==
    /\ month_idx > 0
    /\ Last(monthly_summaries).traded
    /\ Val(Last(monthly_summaries).trade).trade_type = t

\* C3: in a month whose best boom candidate is strictly weaker than the
\* active min_signal_strength, no boom_range trade is recorded for the month.
C3_RejectionExact ==
    (/\ month_idx > 0
     /\ BoomBars(month_data) # {}
     /\ BestBoomStrength(month_data) < min_signal_strength(strategy))
    => /\ ~LastTradeIs("boom_range")
       /\ \A k \in 1..Len(trades) :
            trades[k].month = month_idx => trades[k].trade_type # "boom_range"

\* C3 witness: the best boom of the month is below the threshold and the
\* month trades as a fallback.
C3_Witness ==
    /\ month_idx > 0
    /\ BoomBars(month_data) # {}
    /\ BestBoomStrength(month_data) < min_signal_strength(strategy)
    /\ LastTradeIs("fallback")

\* C4: the ledger holds exactly one entry per month of the simulation
\* window, in chronological order, whatever path each month took.
C4_OneEntryPerMonth ==
    /\ Len(monthly_summaries) = month_idx
    /\ \A k \in 1..Len(monthly_summaries) : monthly_summaries[k].month = k
    /\ (pc = "done" /\ result # None) =>
          /\ Len(Val(result).monthly_summary) = Min(months, span)
          /\ \A k \in 1..Len(Val(result).monthly_summary) :
                Val(result).monthly_summary[k].month = k

\* C4 witness: a returned run of three months or more with a month without
\* bars (counted neither bought nor waited), a traded and a waited month.
C4_Witness ==
    /\ pc = "done"
    /\ result # None
    /\ Len(monthly_summaries) >= 3
    /\ months_bought >= 1
    /\ months_waited >= 1
    /\ months_bought + months_waited < Len(monthly_summaries)

SumAmounts(ts) == SumSeq([k \in 1..Len(ts) |-> ts[k].amount_invested])
SumShares(ts) == SumSeq([k \in 1..Len(ts) |-> ts[k].shares_bought])

\* C5: total_invested is the sum of the trades' amount_invested;
\* total_shares and each trade's cumulative share count are the sum of
\* shares_bought up to there, up to the rounding to 6 decimals (half a
\* micro-share for each rounded term).
C5_TotalsMatchTrades ==
    /\ total_invested = SumAmounts(trades)
    /\ 2 * Abs(Round6(total_shares) - SumShares(trades)) <= Len(trades) + 1
    /\ \A k \in 1..Len(trades) :
          2 * Abs(trades[k].total_shares_after
                    - SumShares(SubSeq(trades, 1, k))) <= k + 1
    /\ (pc = "done" /\ result # None) =>
          /\ Val(result).total_invested = SumAmounts(Val(result).trades)
          /\ 2 * Abs(Val(result).total_shares
                       - SumShares(Val(result).trades))
                <= Len(Val(result).trades) + 1

\* C5 witness: a returned run with two trades or more whose rounded
\* shares_bought do not add up exactly to the rounded total.
C5_Witness ==
    /\ pc = "done"
    /\ result # None
    /\ Len(trades) >= 2
    /\ Val(result).total_shares # SumShares(trades)

\* C6: a month with a candidate whose accumulated_budget *
\* allocation_fraction is below min_trade_amount records no trade, a
\* non-traded ledger entry, one more month waited, and carries the budget
\* (with the month's amount added), totals and trades on unchanged.
C6_AbandonedKeepsBudget ==
    [][(/\ MonthStep
        /\ month_data' # <<>>
        /\ SelectCandidate(month_data', strategy).day # None
        /\ LET frac == AllocationFraction(
                          SelectCandidate(month_data', strategy), strategy)
           IN  (accumulated_budget + monthly_amount) * frac.num
                 < min_trade_amount(strategy) * frac.den)
       => /\ trades' = trades
          /\ ~Last(monthly_summaries').traded
          /\ Last(monthly_summaries').trade = None
          /\ months_waited' = months_waited + 1
          /\ months_bought' = months_bought
          /\ accumulated_budget' = accumulated_budget + monthly_amount
          /\ total_invested' = total_invested
          /\ total_shares' = total_shares]_vars

\* C6 witness: a month with a candidate and no trade, after which a budget
\* of more than one month is available.
C6_Witness ==
    /\ month_idx > 1
    /\ month_data # <<>>
    /\ SelectCandidate(month_data, strategy).day # None
    /\ ~Last(monthly_summaries).traded
    /\ accumulated_budget = month_idx * monthly_amount

\* Number of non-traded ledger entries directly before entry k
RECURSIVE WaitedBefore(_, _)
WaitedBefore(ledger, k) ==
    IF k = 1 \/ ledger[k - 1].traded THEN 0
    ELSE 1 + WaitedBefore(ledger, k - 1)

ClaimedFallbackFraction ==
    [aggressive |-> 600, balanced |-> 500, conservative |-> 400]

\* C8: in tiered mode every fallback trade has the profile's
\* fallback_fraction as allocation_fraction and invests that fraction of the
\* accumulated budget, whatever signal strength the month has seen.
C8_TieredFallbackFraction ==
    [][(/\ MonthStep
        /\ Val(strategy.allocation_mode) = "tiered"
        /\ Last(monthly_summaries').traded
        /\ Val(Last(monthly_summaries').trade).trade_type = "fallback")
       => LET t == Val(Last(monthly_summaries').trade)
              f == ClaimedFallbackFraction[Val(strategy.strategy_profile)]
          IN  /\ t.allocation_fraction = f
              /\ Last(monthly_summaries').allocation_fraction = Some(f)
              /\ t.amount_invested
                   = Round2((accumulated_budget + monthly_amount) * f, 1000)
        ]_vars

\* C8 witness: a tiered fallback trade in a month that has seen a
\* (discarded) boom signal, leaving part of the budget.
C8_Witness ==
    /\ Val(strategy.allocation_mode) = "tiered"
    /\ LastTradeIs("fallback")
    /\ BoomBars(month_data) # {}
    /\ accumulated_budget > 0

\* The tiered boom fraction as the claim states it, as num/den
ClaimedTieredFraction(s, mss, cfg) ==
    LET nd == IF mss < 100 THEN 100 - mss ELSE 1
        nn == IF mss < 100 THEN Max(0, Min(s - mss, 100 - mss)) ELSE 0
        raw == cfg.tiered_base * nd + cfg.tiered_bonus * nn
    IN  [num |-> Max(cfg.tiered_floor * nd, Min(raw, 1000 * nd)),
         den |-> 1000 * nd]

\* C9: in tiered mode a boom_range trade of strength s has
\* allocation_fraction clamp(tiered_base + tiered_bonus * n, tiered_floor, 1)
\* with n = clamp((s - min) / (100 - min), 0, 1) for min < 100 and n = 0 for
\* min >= 100; the fraction lies in [tiered_floor, 1] and its divisor is
\* never zero.
C9_TieredBoomFraction ==
    \A k \in 1..Len(trades) :
        (allocation_mode(strategy) = "tiered"
           /\ trades[k].trade_type = "boom_range")
        => LET cfg == PROFILE_CONFIG[Val(strategy.strategy_profile)]
               mss == min_signal_strength(strategy)
               c == ClaimedTieredFraction(Val(trades[k].signal_strength),
                                          mss, cfg)
           IN  /\ NormalizedStrength(Val(trades[k].signal_strength), mss).den
                    > 0
               /\ trades[k].allocation_fraction
                    = RoundHalfEven(c.num * 1000, c.den)
               /\ trades[k].allocation_fraction >= cfg.tiered_floor
               /\ trades[k].allocation_fraction <= 1000
               /\ trades[k].month = 1 =>
                     trades[k].amount_invested
                       = Round2(monthly_amount * c.num, c.den)

\* C9 witness: a tiered boom trade under the threshold 100, where n is
\* forced to 0 and the fraction is tiered_base.
C9_Witness ==
    /\ allocation_mode(strategy) = "tiered"
    /\ min_signal_strength(strategy) = 100
    /\ LastTradeIs("boom_range")
    /\ Val(Last(monthly_summaries).trade).allocation_fraction
         = profile_cfg(strategy).tiered_base

\* A boom bar of the month reaches the threshold
HasQualifyingBoom(md, mss) ==
    \E k \in BoomBars(md) : detect_boom_range(md[k]).strength >= mss

\* The month's minimum close is strictly below mean close * threshold
MinBelowMean(md, thr) ==
    \E k \in 1..Len(md) :
        /\ \A j \in 1..Len(md) : md[k].close <= md[j].close
        /\ md[k].close * Len(md) * 1000 < MonthSum(md) * thr

\* C10: a month trades as fallback only if no qualifying boom survived and
\* the minimum close is strictly below mean close * fallback_threshold, and
\* then at the bar and price of the minimum close; with no minimum trade
\* amount it does so whenever these hold; a qualifying boom is never
\* replaced by a fallback.
C10_FallbackIff ==
    (month_idx > 0 /\ month_data # <<>>) =>
        LET q == HasQualifyingBoom(month_data, min_signal_strength(strategy))
            dip == MinBelowMean(month_data, fallback_threshold(strategy))
            t == Val(Last(monthly_summaries).trade)
        IN  /\ LastTradeIs("fallback") =>
                 /\ ~q
                 /\ dip
                 /\ t.trade_date[1] = month_idx
                 /\ t.trade_date[2] \in 1..Len(month_data)
                 /\ \A j \in 1..Len(month_data) :
                       month_data[t.trade_date[2]].close
                         <= month_data[j].close
                 /\ t.entry_price = month_data[t.trade_date[2]].close
            /\ (~q /\ dip /\ min_trade_amount(strategy) = 0)
                  => LastTradeIs("fallback")
            /\ (q /\ min_trade_amount(strategy) = 0)
                  => LastTradeIs("boom_range")

\* C10 witness: a fallback trade in a month whose boom bars were all below
\* the threshold, at a minimum close that is not the month's first bar.
C10_Witness ==
    /\ LastTradeIs("fallback")
    /\ BoomBars(month_data) # {}
    /\ Val(Last(monthly_summaries).trade).trade_date[2] > 1

----------------------------------------------------------------------------
\* The chronologically first bar of maximum strength among the boom bars
FirstBestBoom(md) ==
    CHOOSE k \in BoomBars(md) :
        /\ detect_boom_range(md[k]).strength = BestBoomStrength(md)
        /\ \A j \in BoomBars(md) :
              detect_boom_range(md[j]).strength = BestBoomStrength(md)
                 => k <= j

\* C11: in a month holding a boom bar whose strength reaches the active
\* min_signal_strength, a trade, if one is executed, is a boom_range trade
\* dated at the first bar of maximum strength among the month's boom bars,
\* at that bar's close and with that bar's strength and reason.
C11_BestBoomFirstWins ==
    (month_idx > 0 /\ month_data # <<>>
       /\ HasQualifyingBoom(month_data, min_signal_strength(strategy))) =>
        (Last(monthly_summaries).traded =>
            LET t == Val(Last(monthly_summaries).trade)
                b == FirstBestBoom(month_data)
            IN  /\ t.trade_type = "boom_range"
                /\ t.trade_date = <<month_idx, b>>
                /\ t.entry_price = month_data[b].close
                /\ t.signal_strength = Some(BestBoomStrength(month_data))
                /\ t.signal_reason
                     = Some(detect_boom_range(month_data[b]).reason))

\* C11 witness: a boom_range trade in a month whose two bars are boom bars
\* of one strength at different closes, the later one the cheaper.
C11_Witness ==
    /\ LastTradeIs("boom_range")
    /\ Len(month_data) = 2
    /\ BoomBars(month_data) = {1, 2}
    /\ detect_boom_range(month_data[1]).strength
         = detect_boom_range(month_data[2]).strength
    /\ month_data[2].close < month_data[1].close

----------------------------------------------------------------------------
\* The row detect_boom_range was called on, its result, and whether the
\* row's field f is defined and below the bound b
Row == Val(signal_row)
Sig == Val(signal)
Below(f, b) == Row[f] # None /\ Val(Row[f]) < b
Points(cond, pts) == IF cond THEN pts ELSE 0

\* C12: the strength returned by detect_boom_range is the sum of the points
\* of the conditions that fire, each judged on its own field alone (MA20
\* 25, MA50 30, rsi below 30 30 or else below 40 15, 7-day drop 20, 30-day
\* drop 25); each fired condition adds its tag to the reason; is_boom is
\* true exactly when the strength is at least 40; the reason is the
\* no-signal sentinel exactly when the strength is 0.
C12_StrengthIsSumOfFired ==
    signal # None =>
        /\ Sig.strength
             = Points(Below("price_vs_ma20", -5), 25)
                 + Points(Below("price_vs_ma50", -10), 30)
                 + Points(Below("rsi", 30), 30)
                 + Points(Below("rsi", 40) /\ ~Below("rsi", 30), 15)
                 + Points(Below("price_drop_7d", -10), 20)
                 + Points(Below("price_drop_30d", -20), 25)
        /\ Below("price_vs_ma20", -5)
             <=> \E i \in DOMAIN Sig.reason : Sig.reason[i] = "below MA20"
        /\ Below("price_vs_ma50", -10)
             <=> \E i \in DOMAIN Sig.reason : Sig.reason[i] = "below MA50"
        /\ Below("price_drop_7d", -10)
             <=> \E i \in DOMAIN Sig.reason : Sig.reason[i] = "7-day drop"
        /\ Below("price_drop_30d", -20)
             <=> \E i \in DOMAIN Sig.reason : Sig.reason[i] = "30-day drop"
        /\ Sig.is_boom <=> Sig.strength >= 40
        /\ Sig.reason = <<"No boom signals">> <=> Sig.strength = 0

\* C12 witness: the MA20 and the MA50 condition fire together and the rsi
\* lies between 30 and 40: strength 25 + 30 + 15, a boom.
C12_Witness ==
    /\ signal # None
    /\ Below("price_vs_ma20", -5)
    /\ Below("price_vs_ma50", -10)
    /\ Below("rsi", 40) /\ ~Below("rsi", 30)
    /\ Sig.strength = 70
    /\ Sig.is_boom

\* The fields of a row, the tags of the conditions on each, and the most
\* points a field's conditions can add
SignalFields ==
    {"price_vs_ma20", "price_vs_ma50", "rsi", "price_drop_7d",
     "price_drop_30d"}
TagsOf(f) ==
    CASE f = "price_vs_ma20" -> {"below MA20"}
      [] f = "price_vs_ma50" -> {"below MA50"}
      [] f = "rsi" -> {"RSI very oversold", "RSI oversold"}
      [] f = "price_drop_7d" -> {"7-day drop"}
      [] f = "price_drop_30d" -> {"30-day drop"}
MostPoints(f) ==
    CASE f = "price_vs_ma20" -> 25
      [] f = "price_vs_ma50" -> 30
      [] f = "rsi" -> 30
      [] f = "price_drop_7d" -> 20
      [] f = "price_drop_30d" -> 25
RECURSIVE MostPointsOf(_)
MostPointsOf(S) ==
    IF S = {} THEN 0
    ELSE LET f == CHOOSE g \in S : TRUE
         IN  MostPoints(f) + MostPointsOf(S \ {f})

----------------------------------------------------------------------------
\* The number of calendar months from the first bar's month to the last
\* bar's month, or the number of months requested when that is less
ClaimedIterations == IF months < span THEN months ELSE span

\* C14: the month loop starts before the first bar's month, each iteration
\* visits the calendar month that follows the one visited last and records
\* it, no iteration goes beyond min(months requested, calendar months
\* spanned), and a run over a non-empty series eventually returns, having
\* made exactly that number of iterations.
C14_LoopTerminatesInOrder ==
    /\ month_idx = 0
    /\ [][/\ month_idx' # month_idx =>
                /\ month_idx' = month_idx + 1
                /\ month_idx' <= ClaimedIterations
                /\ Len(monthly_summaries') = month_idx'
                /\ Last(monthly_summaries').month = month_idx'
          /\ (pc = "loop" /\ pc' = "done" /\ span > 0) =>
                /\ month_idx' = ClaimedIterations
                /\ Len(monthly_summaries') = ClaimedIterations]_vars
    /\ <>(pc = "done" /\ (span > 0 => month_idx = ClaimedIterations))

\* C14 witness: a run over a series spanning more months than requested has
\* returned after the requested two or more months.
C14_Witness ==
    /\ pc = "done"
    /\ result # None
    /\ months >= 2
    /\ months < span
    /\ month_idx = months
    /\ Len(Val(result).monthly_summary) = months

----------------------------------------------------------------------------
\* The value the caller's strategy supplies for a field of the profile
\* table, else the table's value
SuppliedOrTable(f) ==
    IF strategy[f] # None THEN Val(strategy[f])
    ELSE PROFILE_CONFIG[Val(strategy.strategy_profile)][f]

\* The month processed and the result returned are those of a tiered run
\* that uses the threshold mss, the fallback threshold thr and the sizing
\* fields cfg: the month trades exactly when it holds a qualifying boom or
\* a dip, the trade is sized by cfg, and the result reports mss and thr.
RunUses(mss, thr, cfg) ==
    LET q == HasQualifyingBoom(month_data, mss)
        dip == MinBelowMean(month_data, thr)
        t == Val(Last(monthly_summaries).trade)
        c == ClaimedTieredFraction(BestBoomStrength(month_data), mss, cfg)
    IN  /\ q => /\ LastTradeIs("boom_range")
                /\ t.signal_threshold = mss
                /\ t.allocation_fraction = RoundHalfEven(c.num * 1000, c.den)
        /\ (~q /\ dip) => /\ LastTradeIs("fallback")
                          /\ t.signal_threshold = mss
                          /\ t.allocation_fraction = cfg.fallback_fraction
        /\ (~q /\ ~dip) => ~Last(monthly_summaries).traded
        /\ result # None =>
              /\ Val(result).min_signal_strength = mss
              /\ Val(result).fallback_threshold = Round2(thr, 1)

\* C15 as stated: each of the six fields of the profile table is taken from
\* the caller's strategy when it supplies a value, 0 included, and from the
\* selected profile's table when it does not.
C15_EachFieldOverridable ==
    month_idx > 0 =>
        RunUses(SuppliedOrTable("min_signal_strength"),
                SuppliedOrTable("fallback_threshold"),
                [tiered_base |-> SuppliedOrTable("tiered_base"),
                 tiered_bonus |-> SuppliedOrTable("tiered_bonus"),
                 tiered_floor |-> SuppliedOrTable("tiered_floor"),
                 fallback_fraction |-> SuppliedOrTable("fallback_fraction")])

\* C15 amended: min_signal_strength is taken from the caller's strategy
\* when it supplies a value, 0 included; fallback_threshold is taken from it
\* when it supplies a value other than 0; tiered_base, tiered_bonus,
\* tiered_floor and fallback_fraction are always the selected profile's
\* table values, whatever the strategy carries; a field not supplied has
\* the table value.
C15_OverridableFields ==
    month_idx > 0 =>
        RunUses(SuppliedOrTable("min_signal_strength"),
                IF strategy.fallback_threshold = Some(0)
                THEN PROFILE_CONFIG[Val(strategy.strategy_profile)]
                         .fallback_threshold
                ELSE SuppliedOrTable("fallback_threshold"),
                PROFILE_CONFIG[Val(strategy.strategy_profile)])

\* C15 witness: the strategy supplies all six fields, 0 for both
\* thresholds; the month's weak boom is traded and the result returned.
C15_Witness ==
    /\ pc = "done"
    /\ result # None
    /\ \A f \in {"min_signal_strength", "fallback_threshold", "tiered_base",
                 "tiered_bonus", "tiered_floor", "fallback_fraction"} :
          strategy[f] # None
    /\ strategy.min_signal_strength = Some(0)
    /\ strategy.fallback_threshold = Some(0)
    /\ LastTradeIs("boom_range")
    /\ BestBoomStrength(month_data) < 50

----------------------------------------------------------------------------
\* No close of the trailing window of bar i lies below the close before it:
\* the window's mean loss is zero
NoLossInWindow(close, i) ==
    \A j \in (Max(1, i - 13)..i) \ {1} : close[j] >= close[j - 1]

\* C16: for every bar whose trailing 14-bar mean loss is zero, the first
\* bar and bars whose window holds no price change included, the rsi that
\* calculate_technical_indicators computes is 100 and not undefined.
C16_RsiHundredAtZeroLoss ==
    df_rsi # None =>
        \A i \in 1..Len(df_close) :
            NoLossInWindow(df_close, i) =>
                /\ Val(df_rsi)[i] # None
                /\ Val(Val(df_rsi)[i]).num = 100 * Val(Val(df_rsi)[i]).den

----------------------------------------------------------------------------
\* The traded entries among the first k entries of the ledger
TradedUpTo(ledger, k) == {j \in 1..k : ledger[j].traded}

\* C18: the trades list holds one trade per traded ledger entry and
\* months_bought counts them; a traded entry carries the trade of its own
\* month, which is the trade at its rank in the trades list; an entry that
\* is not traded carries no trade; the trades are in increasing month order.
C18_TradesMatchLedger ==
    /\ Len(trades) = months_bought
    /\ Cardinality(TradedUpTo(monthly_summaries, Len(monthly_summaries)))
         = months_bought
    /\ \A k \in 1..Len(monthly_summaries) :
          IF monthly_summaries[k].traded
          THEN /\ monthly_summaries[k].trade # None
               /\ Val(monthly_summaries[k].trade).month
                    = monthly_summaries[k].month
               /\ Val(monthly_summaries[k].trade).trade_date[1]
                    = monthly_summaries[k].month
               /\ Val(monthly_summaries[k].trade)
                    = trades[Cardinality(TradedUpTo(monthly_summaries, k))]
          ELSE monthly_summaries[k].trade = None
    /\ \A i, j \in 1..Len(trades) : i < j => trades[i].month < trades[j].month
    /\ result # None =>
          /\ Val(result).trades = trades
          /\ Val(result).monthly_summary = monthly_summaries
          /\ Val(result).months_bought = Len(Val(result).trades)

\* C18 witness: a returned run with two trades and a month without a trade
\* between them.
C18_Witness ==
    /\ pc = "done"
    /\ result # None
    /\ Len(trades) = 2
    /\ Len(monthly_summaries) = 3
    /\ ~monthly_summaries[2].traded

----------------------------------------------------------------------------
\* C19: the returned return_percent is 0 when nothing was invested (no
\* trade, or trades of a monthly_amount of 0) and profit_loss /
\* total_invested * 100 otherwise; buy_rate is 0 when no month was simulated
\* and months_bought over the number of simulated months otherwise, between
\* 0 and 1; a trade of amount 0 has profit_loss_percent 0.
C19_NoDivisionByZero ==
    (pc = "done" /\ result # None) =>
        LET r == Val(result)
            n == Len(r.monthly_summary)
            cp == Val(current_price)
            profit == total_shares * cp - total_invested * PriceLcm
        IN  /\ r.total_invested = 0 => r.return_percent = 0
            /\ r.total_invested > 0 =>
                  r.return_percent
                    = RoundHalfEven((profit \div 10) * 10000,
                                    PriceLcm * (total_invested \div 10))
            /\ n = 0 => r.buy_rate = 0
            /\ n > 0 => r.buy_rate = RoundHalfEven(r.months_bought * 10000, n)
            /\ r.buy_rate >= 0
            /\ r.buy_rate <= 10000
            /\ \A k \in 1..Len(r.trades) :
                  r.trades[k].amount_invested = 0
                     => r.trades[k].profit_loss_percent = 0

\* C19 witness: with a monthly_amount of 0 a run has traded, at a close
\* other than the current price, and returns with nothing invested.
C19_Witness ==
    /\ pc = "done"
    /\ result # None
    /\ monthly_amount = 0
    /\ Val(result).months_bought >= 1
    /\ Val(result).total_invested = 0
    /\ Val(result).trades[1].entry_price # Val(result).current_price

----------------------------------------------------------------------------
\* C20: a call on a missing or empty series (span = 0) returns, the value
\* returned is None, and at no point of the call is a month visited, a trade
\* or a ledger entry produced or a total changed.
C20_EmptySeriesReturnsNone ==
    /\ [](span = 0 =>
            /\ result = None
            /\ trades = <<>>
            /\ monthly_summaries = <<>>
            /\ month_idx = 0
            /\ months_bought = 0
            /\ months_waited = 0
            /\ total_invested = 0
            /\ total_shares = 0)
    /\ (span = 0) ~> (pc = "done" /\ result = None)

\* C20 witness: a call for one or more months on an empty series has
\* returned None.
C20_Witness ==
    /\ span = 0
    /\ months >= 1
    /\ monthly_amount > 0
    /\ pc = "done"
    /\ result = None

----------------------------------------------------------------------------

\* The results of the symbols at the first n positions of the request whose
\* processing succeeds, in request order
RECURSIVE SucceededUpTo(_)
SucceededUpTo(n) ==
    IF n = 0 THEN <<>>
    ELSE IF batch_outcomes[n].kind = "ok"
         THEN Append(SucceededUpTo(n - 1),
                     [symbol |-> batch_symbols[n],
                      return_percent |-> batch_outcomes[n].return_percent])
         ELSE SucceededUpTo(n - 1)

\* The symbols at the first n positions whose processing fails
RECURSIVE FailedUpTo(_)
FailedUpTo(n) ==
    IF n = 0 THEN <<>>
    ELSE IF batch_outcomes[n].kind # "ok"
         THEN Append(FailedUpTo(n - 1), batch_symbols[n])
         ELSE FailedUpTo(n - 1)

IsSuccessResponse(r) == "success" \in DOMAIN r /\ r.success

\* C21: in analyze_multiple_symbols a failure on one symbol (no data, an
\* empty calculation result, or an exception) is recorded as an error for
\* that symbol and does not stop the remaining symbols: the symbols are
\* attempted once each in request order, every failed one has an error and
\* every succeeded one a result, and the caller gets a success response
\* holding the results of exactly the symbols that succeeded when at least
\* one did, and a failure when none did.
C21_FailureIsolatedPerSymbol ==
    /\ fetch_log = SubSeq(batch_symbols, 1, batch_idx)
    /\ results = SucceededUpTo(batch_idx)
    /\ [j \in 1..Len(errors) |-> errors[j].symbol] = FailedUpTo(batch_idx)
    /\ response # None =>
         /\ batch_idx = Len(batch_symbols)
         /\ IF SucceededUpTo(Len(batch_symbols)) # <<>>
            THEN /\ IsSuccessResponse(Val(response))
                 /\ Val(response).results = SucceededUpTo(Len(batch_symbols))
            ELSE ~IsSuccessResponse(Val(response))

\* A success response to a request whose first symbol raised and whose
\* later symbol succeeded
C21_Witness ==
    /\ response # None
    /\ IsSuccessResponse(Val(response))
    /\ Len(batch_symbols) >= 2
    /\ batch_outcomes[1].kind = "raises"
    /\ batch_outcomes[Len(batch_symbols)].kind = "ok"
    /\ errors # <<>>

----------------------------------------------------------------------------

\* The month processed last held a boom bar and its best boom strength was
\* below the active min_signal_strength
WeakBoomDiscarded ==
    /\ month_idx > 0
    /\ BoomBars(month_data) # {}
    /\ BestBoomStrength(month_data) < min_signal_strength(strategy)

\* C22: when the month's best boom strength is below min_signal_strength
\* the candidate is discarded entirely: a trade of that month is a fallback
\* trade at the month's minimum close that carries no signal_strength of the
\* discarded boom.
C22_DiscardedBoomLeavesNoTrace ==
    (WeakBoomDiscarded /\ Last(monthly_summaries).traded) =>
        LET t == Val(Last(monthly_summaries).trade)
        IN  /\ t.trade_type = "fallback"
            /\ t.trade_date = <<month_idx, MonthMinIdx(month_data)>>
            /\ t.entry_price = MonthMin(month_data)
            /\ t.signal_strength = None

----------------------------------------------------------------------------

\* monthly_amount is a whole number of cents
WholeCents == monthly_amount % 10 = 0

\* C23: over a whole run with monthly_amount in whole cents the accumulated
\* budget is never negative and total_invested + accumulated_budget equals
\* monthly_amount times the number of months processed so far; the returned
\* total_invested + unused_budget equals monthly_amount times the number of
\* simulated months, the months without bars included.
C23_MoneyConserved ==
    WholeCents =>
        /\ accumulated_budget >= 0
        /\ total_invested + accumulated_budget = monthly_amount * month_idx
        /\ result # None =>
             Val(result).total_invested + Val(result).unused_budget
                = monthly_amount * NumMonthlyDates(months, span)

\* C23 witness: a returned run of three months, one of them without bars,
\* that invested in two different months and kept part of the budget
C23_Witness ==
    /\ WholeCents
    /\ result # None
    /\ month_idx = 3
    /\ \E k \in 1..3 : ~monthly_summaries[k].traded
                       /\ monthly_summaries[k].accumulated_budget
                            = (IF k = 1 THEN 0
                               ELSE monthly_summaries[k - 1].accumulated_budget)
                              + monthly_amount
    /\ Len(trades) = 2
    /\ Val(result).unused_budget > 0
    /\ Val(result).total_invested > 0

----------------------------------------------------------------------------

\* A trade is executed by the step
TradeStep == Len(trades') = Len(trades) + 1

\* Of two tiered boom trades of a run, the one of the greater strength has
\* the greater or equal allocation_fraction
TieredFractionMonotone(ts) ==
    allocation_mode(strategy) = "tiered" =>
        \A j, k \in 1..Len(ts) :
            (/\ ts[j].trade_type = "boom_range"
             /\ ts[k].trade_type = "boom_range"
             /\ Val(ts[j].signal_strength) <= Val(ts[k].signal_strength))
            => ts[j].allocation_fraction <= ts[k].allocation_fraction

----------------------------------------------------------------------------

\* The strategy with its min_signal_strength set to the detector's threshold
AtBoomThreshold(st) == [st EXCEPT !.min_signal_strength = Some(BoomThreshold)]

\* A month of bars md entered with the budget b trades as boom_range under
\* the strategy st
TradesAsBoom(md, st, b) ==
    /\ md # <<>>
    /\ SelectCandidate(md, st).trade_type = Some("boom_range")
    /\ ~BelowMinTrade(b, AllocationFraction(SelectCandidate(md, st), st), st)

\* Every boom_range trade has a strength that reaches both the detector's
\* threshold and the active min_signal_strength
BoomTradesReachBoth ==
    \A k \in 1..Len(trades) :
        trades[k].trade_type = "boom_range" =>
            Val(trades[k].signal_strength)
              >= Max(BoomThreshold, min_signal_strength(strategy))

\* The only month of the run is processed under a threshold below the
\* detector's
MonthUnderLowThreshold ==
    /\ month_idx = 1
    /\ min_signal_strength(strategy) < BoomThreshold

\* C25: every boom_range trade has a signal strength of at least
\* max(40, min_signal_strength); under a min_signal_strength below 40 the
\* month trades as boom_range exactly when it does under the threshold 40.
C25_LowThresholdChangesNothing ==
    /\ BoomTradesReachBoth
    /\ MonthUnderLowThreshold =>
         (LastTradeIs("boom_range")
            <=> TradesAsBoom(month_data, AtBoomThreshold(strategy),
                             monthly_amount))

\* C25 amended: every boom_range trade has a signal strength of at least
\* max(40, min_signal_strength); under a min_signal_strength below 40 the
\* month's boom candidate is the bar chosen under the threshold 40, and the
\* month trades as boom_range exactly when it does under the threshold 40
\* in full mode or without a min_trade_amount.  In tiered mode the threshold
\* scales the allocation, so the month's trade can clear min_trade_amount
\* under one threshold and not under the other.
C25_LowThresholdSameCandidate ==
    /\ BoomTradesReachBoth
    /\ MonthUnderLowThreshold =>
         LET at40 == SelectCandidate(month_data, AtBoomThreshold(strategy))
         IN  /\ LastTradeIs("boom_range") =>
                  /\ at40.trade_type = Some("boom_range")
                  /\ Val(Last(monthly_summaries).trade).trade_date
                       = <<1, Val(at40.day)>>
             /\ (allocation_mode(strategy) = "full"
                   \/ min_trade_amount(strategy) = 0) =>
                  (LastTradeIs("boom_range")
                     <=> TradesAsBoom(month_data, AtBoomThreshold(strategy),
                                      monthly_amount))

\* C25 witness: under the threshold 0 a month holding a bar of strength 25
\* and a boom bar trades as boom_range at the boom bar
C25_Witness ==
    /\ month_idx = 1
    /\ min_signal_strength(strategy) = 0
    /\ \E k \in 1..Len(month_data) :
          detect_boom_range(month_data[k]).strength = 25
    /\ LastTradeIs("boom_range")
    /\ Val(Val(Last(monthly_summaries).trade).signal_strength) >= BoomThreshold

----------------------------------------------------------------------------

\* C26: every executed trade refers to a bar of its own ledger month: the
\* trade recorded by the ledger entry of the month processed last is dated
\* in that month at one of the month's bars, its month label is the entry's,
\* its entry_price is the close of the bar at that date, and for a fallback
\* trade that close is the month's minimum close.
C26_TradeOfOwnMonth ==
    (month_idx > 0 /\ Last(monthly_summaries).traded) =>
        LET e == Last(monthly_summaries)
            t == Val(e.trade)
        IN  /\ e.month = month_idx
            /\ t.month = e.month
            /\ t.trade_date[1] = e.month
            /\ t.trade_date[2] \in 1..Len(month_data)
            /\ t.entry_price = month_data[t.trade_date[2]].close
            /\ t.trade_type = "fallback" => t.entry_price = MonthMin(month_data)
            /\ t = Last(trades)

\* C26 witness: a fallback trade in the second month at the month's second
\* bar, whose close differs from the close the first month traded at
C26_Witness ==
    /\ month_idx = 2
    /\ Len(trades) = 2
    /\ LastTradeIs("fallback")
    /\ trades[2].trade_date = <<2, 2>>
    /\ trades[2].entry_price = month_data[2].close
    /\ trades[1].trade_date[1] = 1
    /\ trades[1].entry_price # trades[2].entry_price

----------------------------------------------------------------------------

\* The rows of the frame df all come from the source src
WhollyFrom(df, src) == \A k \in 1..Len(df) : df[k].source = src

\* C27: fetch_historical_data tries the crypto source fully and queries the
\* stock source only when the crypto source returned no data or failed;
\* each source is queried at most once, crypto first; the frame returned is
\* not empty and comes wholly from one source (the crypto frame when there
\* is one, else the stock frame); when both sources give nothing the fetch
\* ends in a failure, with no further query.
C27_CryptoThenStockNoMerge ==
    /\ source_calls \in {<<>>, <<"crypto">>, <<"crypto", "stock">>}
    /\ Len(source_calls) = 2 => crypto_df = None
    /\ fetched # None =>
         /\ fetch_pc = "done"
         /\ IF crypto_df # None
            THEN /\ Val(fetched) = [kind |-> "frame", df |-> Val(crypto_df)]
                 /\ Val(crypto_df) = FilterToRange(ohlcv_data)
                 /\ Val(crypto_df) # <<>>
                 /\ WhollyFrom(Val(fetched).df, "crypto")
                 /\ source_calls = <<"crypto">>
            ELSE IF stock_df # None
                 THEN /\ Val(fetched) = [kind |-> "frame", df |-> Val(stock_df)]
                      /\ Val(stock_df) # <<>>
                      /\ WhollyFrom(Val(fetched).df, "stock")
                      /\ source_calls = <<"crypto", "stock">>
                 ELSE /\ Val(fetched).kind = "ValueError"
                      /\ source_calls = <<"crypto", "stock">>

\* C27 witness: the crypto fetch gathered a full page of candles in range
\* and then gave up, and the frame returned holds the stock bars only
C27_Witness ==
    /\ fetched # None
    /\ Val(fetched).kind = "frame"
    /\ Len(ohlcv_data) = PageLimit
    /\ FilterToRange(ohlcv_data) # <<>>
    /\ crypto_df = None
    /\ WhollyFrom(Val(fetched).df, "stock")

=============================================================================
